---- MODULE Spec2Model ----
(***************************************************************************)
(* Model of the station join path of the Wi-Fi Host Driver                 *)
(* (WHD/COMPONENT_WIFI5/src/whd_wifi_api.c): whd_wifi_join,                *)
(* whd_wifi_join_specific, whd_wifi_leave on application threads and       *)
(* whd_wifi_join_events_handler on the driver worker thread, for one       *)
(* interface (bsscfgidx 0).                                                *)
(***************************************************************************)
EXTENDS Integers, Sequences, FiniteSets, TLC

\* ------------------------------------------------------------------------
\* Bounds of the model
\* ------------------------------------------------------------------------
\* total number of API calls started in one behaviour
MaxCalls == 1
\* calls in a behaviour of the deregistering calls
MaxDeregCalls == 3
\* calls of whd_wifi_scan and escan events in a behaviour of the scan
MaxScanCalls == 2
MaxScanEvents == 4
MaxSynchCalls == 2
MaxSynchCount == 2
MaxEntries == 2
MaxEnqueueCalls == 2
MaxDeleteCalls == 2
DHCP_IP_ADDRESS_CACHE_MAX == 5
MaxClients == 4
DhcpSubnet == 167772160
DhcpLocalHost == 1
DhcpHostMasks == {3, 7}
\* total number of join events the firmware delivers in one behaviour
MaxEvents == 5
\* the same two bounds where two application threads run concurrently
MaxConcCalls == 2
MaxConcEvents == 2
\* join events delivered in a behaviour in which the clock is followed
MaxTimedEvents == 2
\* length of the sequences of join events that are tried one by one
MaxSeqLen == 3

\* the application threads that call into the driver; a thread's name also
\* stands for the address of the join semaphore on its stack
Threads == {"t1", "t2"}
NULL == "NULL"

\* ------------------------------------------------------------------------
\* Program constants
\* ------------------------------------------------------------------------
JOIN_ASSOCIATED == 1
JOIN_AUTHENTICATED == 2
JOIN_LINK_READY == 4
JOIN_SECURITY_COMPLETE == 8
JOIN_SSID_SET == 16
JOIN_NO_NETWORKS == 32
JOIN_EAPOL_KEY_M1_TIMEOUT == 64
JOIN_EAPOL_KEY_M3_TIMEOUT == 128
JOIN_EAPOL_KEY_G1_TIMEOUT == 256
JOIN_EAPOL_KEY_FAILURE == 512
JOIN_SECURITY_FLAGS_MASK ==
    JOIN_SECURITY_COMPLETE + JOIN_EAPOL_KEY_M1_TIMEOUT + JOIN_EAPOL_KEY_M3_TIMEOUT
        + JOIN_EAPOL_KEY_G1_TIMEOUT + JOIN_EAPOL_KEY_FAILURE
WLC_EVENT_MSG_LINK == 1
DEFAULT_JOIN_ATTEMPT_TIMEOUT == 9000
\* the timeout of one cy_rtos_get_semaphore call of the wait
SemaTimeout == DEFAULT_JOIN_ATTEMPT_TIMEOUT \div 10
SSID_NAME_SIZE == 32
\* whd_chip.c: the polls for the HT clock and of the sleep CSR, and the
\* milliseconds between two of them
WLAN_BUS_UP_ATTEMPTS == 1000
HT_AVAIL_WAIT_MS == 1
KSO_WAIT_MS == 1
MAX_KSO_ATTEMPTS == 64
\* bits of the chip-clock CSR and of the sleep CSR
SBSDIO_HT_AVAIL == 128
SBSDIO_SLPCSR_KEEP_WL_KSO == 1
SBSDIO_SLPCSR_WL_DEVON == 2
\* the version of wl_bss_info_t that the scan handler accepts, and
\* sizeof(wl_bss_info_t)
WL_BSS_INFO_VERSION == 109
SizeofBssInfo == 128
WSEC_MIN_PSK_LEN == 8
WSEC_MAX_PSK_LEN == 64
WSEC_MAX_SAE_PASSWORD_LEN == 128
KEY_MIN_LEN == 8
KEY_MAX_LEN == 64

\* chips the driver runs on: 43022 (WPA/TKIP refused, supplicant torn down on
\* leave) and 0x4373 (MPDU-per-AMPDU set after a join_specific); what any
\* other chip does is what one of these two does
ChipIds == {43022, 17267}

\* ------------------------------------------------------------------------
\* Bit operations on the 32-bit join status word; m is a sum of distinct
\* single-bit masks
\* ------------------------------------------------------------------------
Bits == {JOIN_ASSOCIATED, JOIN_AUTHENTICATED, JOIN_LINK_READY, JOIN_SECURITY_COMPLETE,
         JOIN_SSID_SET, JOIN_NO_NETWORKS, JOIN_EAPOL_KEY_M1_TIMEOUT,
         JOIN_EAPOL_KEY_M3_TIMEOUT, JOIN_EAPOL_KEY_G1_TIMEOUT, JOIN_EAPOL_KEY_FAILURE}

HasBit(s, b) == (s \div b) % 2 = 1

RECURSIVE SumSet(_)
SumSet(S) == IF S = {} THEN 0
             ELSE LET x == CHOOSE y \in S : TRUE IN x + SumSet(S \ {x})

\* s | m
BitOr(s, m) == SumSet({b \in Bits : HasBit(s, b) \/ HasBit(m, b)})
\* s & ~m
BitClear(s, m) == SumSet({b \in Bits : HasBit(s, b) /\ ~HasBit(m, b)})


\* ------------------------------------------------------------------------
\* whd_wifi_check_join_status / whd_wifi_is_ready_to_transceive
\* ------------------------------------------------------------------------
\* the classifier as it would be without the case of an M3 timeout seen
\* after the SSID was set
check_join_status_no_ssid_m3(js) ==
    CASE js = JOIN_NO_NETWORKS -> "WHD_NETWORK_NOT_FOUND"
      [] js = JOIN_AUTHENTICATED + JOIN_LINK_READY + JOIN_EAPOL_KEY_M1_TIMEOUT
            -> "WHD_EAPOL_KEY_PACKET_M1_TIMEOUT"
      [] js = JOIN_AUTHENTICATED + JOIN_LINK_READY + JOIN_EAPOL_KEY_M3_TIMEOUT
            -> "WHD_EAPOL_KEY_PACKET_M3_TIMEOUT"
      [] js = JOIN_AUTHENTICATED + JOIN_LINK_READY + JOIN_EAPOL_KEY_G1_TIMEOUT
            -> "WHD_EAPOL_KEY_PACKET_G1_TIMEOUT"
      [] js = JOIN_AUTHENTICATED + JOIN_LINK_READY + JOIN_SSID_SET + JOIN_EAPOL_KEY_G1_TIMEOUT
            -> "WHD_EAPOL_KEY_PACKET_G1_TIMEOUT"
      [] js = JOIN_AUTHENTICATED + JOIN_LINK_READY + JOIN_EAPOL_KEY_FAILURE
            -> "WHD_EAPOL_KEY_FAILURE"
      [] js = JOIN_AUTHENTICATED + JOIN_LINK_READY + JOIN_SSID_SET + JOIN_EAPOL_KEY_FAILURE
            -> "WHD_EAPOL_KEY_FAILURE"
      [] js = JOIN_AUTHENTICATED + JOIN_LINK_READY + JOIN_SSID_SET + JOIN_SECURITY_COMPLETE
            -> "WHD_SUCCESS"
      [] js = 0 -> "WHD_NOT_AUTHENTICATED"
      [] js = JOIN_SECURITY_COMPLETE -> "WHD_NOT_AUTHENTICATED"
      [] js = JOIN_AUTHENTICATED + JOIN_LINK_READY + JOIN_SECURITY_COMPLETE
            -> "WHD_JOIN_IN_PROGRESS"
      [] js = JOIN_AUTHENTICATED + JOIN_LINK_READY -> "WHD_NOT_KEYED"
      [] js = JOIN_AUTHENTICATED + JOIN_LINK_READY + JOIN_SSID_SET -> "WHD_NOT_KEYED"
      [] OTHER -> "WHD_INVALID_JOIN_STATUS"

whd_wifi_check_join_status(js) ==
    CASE js = JOIN_NO_NETWORKS -> "WHD_NETWORK_NOT_FOUND"
      [] js = JOIN_AUTHENTICATED + JOIN_LINK_READY + JOIN_EAPOL_KEY_M1_TIMEOUT
            -> "WHD_EAPOL_KEY_PACKET_M1_TIMEOUT"
      [] js = JOIN_AUTHENTICATED + JOIN_LINK_READY + JOIN_EAPOL_KEY_M3_TIMEOUT
            -> "WHD_EAPOL_KEY_PACKET_M3_TIMEOUT"
      [] js = JOIN_AUTHENTICATED + JOIN_LINK_READY + JOIN_SSID_SET + JOIN_EAPOL_KEY_M3_TIMEOUT
            -> "WHD_EAPOL_KEY_PACKET_M3_TIMEOUT"
      [] js = JOIN_AUTHENTICATED + JOIN_LINK_READY + JOIN_EAPOL_KEY_G1_TIMEOUT
            -> "WHD_EAPOL_KEY_PACKET_G1_TIMEOUT"
      [] js = JOIN_AUTHENTICATED + JOIN_LINK_READY + JOIN_SSID_SET + JOIN_EAPOL_KEY_G1_TIMEOUT
            -> "WHD_EAPOL_KEY_PACKET_G1_TIMEOUT"
      [] js = JOIN_AUTHENTICATED + JOIN_LINK_READY + JOIN_EAPOL_KEY_FAILURE
            -> "WHD_EAPOL_KEY_FAILURE"
      [] js = JOIN_AUTHENTICATED + JOIN_LINK_READY + JOIN_SSID_SET + JOIN_EAPOL_KEY_FAILURE
            -> "WHD_EAPOL_KEY_FAILURE"
      [] js = JOIN_AUTHENTICATED + JOIN_LINK_READY + JOIN_SSID_SET + JOIN_SECURITY_COMPLETE
            -> "WHD_SUCCESS"
      [] js = 0 -> "WHD_NOT_AUTHENTICATED"
      [] js = JOIN_SECURITY_COMPLETE -> "WHD_NOT_AUTHENTICATED"
      [] js = JOIN_AUTHENTICATED + JOIN_LINK_READY + JOIN_SECURITY_COMPLETE
            -> "WHD_JOIN_IN_PROGRESS"
      [] js = JOIN_AUTHENTICATED + JOIN_LINK_READY -> "WHD_NOT_KEYED"
      [] js = JOIN_AUTHENTICATED + JOIN_LINK_READY + JOIN_SSID_SET -> "WHD_NOT_KEYED"
      [] OTHER -> "WHD_INVALID_JOIN_STATUS"

\* the roles of an interface (whd_interface_role_t)
Roles == {"WHD_INVALID_ROLE", "WHD_STA_ROLE", "WHD_AP_ROLE", "WHD_P2P_ROLE"}

\* the switch on the role as it would be if a station were judged as an
\* access point is
ReadyToTransceiveStaAsAp(r, ap_is_up, js) ==
    IF r \in {"WHD_AP_ROLE", "WHD_STA_ROLE"}
    THEN IF ap_is_up THEN "WHD_SUCCESS" ELSE "WHD_INTERFACE_NOT_UP"
    ELSE "WHD_UNKNOWN_INTERFACE"

\* the switch on ifp->role of whd_wifi_is_ready_to_transceive; ap_is_up is
\* the value of whd_wifi_get_ap_is_up
ReadyToTransceive(r, ap_is_up, js) ==
    CASE r = "WHD_AP_ROLE" -> IF ap_is_up THEN "WHD_SUCCESS" ELSE "WHD_INTERFACE_NOT_UP"
      [] r = "WHD_STA_ROLE" -> whd_wifi_check_join_status(js)
      [] OTHER -> "WHD_UNKNOWN_INTERFACE"

\* whd_wifi_is_ready_to_transceive in the join path, where the role is the
\* station role that the join set or the invalid role that a cleanup set
whd_wifi_is_ready_to_transceive(r, js) == ReadyToTransceive(r, FALSE, js)

\* the terminal outcomes of the classification: Success or a Failure{reason}
TerminalStatus == {"WHD_SUCCESS", "WHD_NETWORK_NOT_FOUND",
                   "WHD_EAPOL_KEY_PACKET_M1_TIMEOUT", "WHD_EAPOL_KEY_PACKET_M3_TIMEOUT",
                   "WHD_EAPOL_KEY_PACKET_G1_TIMEOUT", "WHD_EAPOL_KEY_FAILURE"}
FailureStatus == TerminalStatus \ {"WHD_SUCCESS"}

\* ------------------------------------------------------------------------
\* Join events (whd_event_header_t: event_type, status, reason, flags)
\* ------------------------------------------------------------------------
Ev(ty, st, re, fl) == [type |-> ty, status |-> st, reason |-> re, flags |-> fl]

JoinEvents ==
    {Ev("WLC_E_SET_SSID", st, "-", 0) :
        st \in {"WLC_E_STATUS_SUCCESS", "WLC_E_STATUS_NO_NETWORKS", "WLC_E_STATUS_FAIL"}}
    \cup {Ev("WLC_E_LINK", "-", "-", fl) : fl \in {0, WLC_EVENT_MSG_LINK}}
    \cup {Ev("WLC_E_AUTH", st, "-", 0) :
        st \in {"WLC_E_STATUS_SUCCESS", "WLC_E_STATUS_UNSOLICITED", "WLC_E_STATUS_FAIL"}}
    \cup {Ev("WLC_E_DEAUTH_IND", "-", "-", 0), Ev("WLC_E_DISASSOC_IND", "-", "-", 0),
          Ev("WLC_E_CSA_COMPLETE_IND", "-", "-", 0)}
    \cup {Ev("WLC_E_PSK_SUP", st, re, 0) :
        st \in {"WLC_SUP_KEYED", "WLC_SUP_KEYXCHANGE_WAIT_M1", "WLC_SUP_KEYXCHANGE_WAIT_M3",
                 "WLC_SUP_KEYXCHANGE_WAIT_G1"},
        re \in {"WLC_E_SUP_OTHER", "WLC_E_SUP_WPA_PSK_TMO"}}

\* the switch as it would be if a DEAUTH_IND or DISASSOC_IND cleared only the
\* authenticated bit
HandlerStatusLinkKept(js, e) ==
    CASE e.type = "WLC_E_PSK_SUP" ->
            IF HasBit(js, JOIN_LINK_READY)
            THEN IF e.status = "WLC_SUP_KEYED"
                 THEN BitOr(BitClear(js, JOIN_SECURITY_FLAGS_MASK), JOIN_SECURITY_COMPLETE)
                 ELSE IF e.status = "WLC_SUP_KEYXCHANGE_WAIT_M1"
                         /\ e.reason = "WLC_E_SUP_WPA_PSK_TMO"
                 THEN BitOr(js, JOIN_EAPOL_KEY_M1_TIMEOUT)
                 ELSE IF e.status = "WLC_SUP_KEYXCHANGE_WAIT_M3"
                         /\ e.reason = "WLC_E_SUP_WPA_PSK_TMO"
                 THEN BitOr(js, JOIN_EAPOL_KEY_M3_TIMEOUT)
                 ELSE IF e.status = "WLC_SUP_KEYXCHANGE_WAIT_G1"
                         /\ e.reason = "WLC_E_SUP_WPA_PSK_TMO"
                 THEN BitOr(js, JOIN_EAPOL_KEY_G1_TIMEOUT)
                 ELSE BitOr(js, JOIN_EAPOL_KEY_FAILURE)
            ELSE js
      [] e.type = "WLC_E_SET_SSID" ->
            IF e.status = "WLC_E_STATUS_SUCCESS" THEN BitOr(js, JOIN_SSID_SET)
            ELSE IF e.status = "WLC_E_STATUS_NO_NETWORKS" THEN BitOr(js, JOIN_NO_NETWORKS)
            ELSE js
      [] e.type = "WLC_E_LINK" ->
            IF HasBit(e.flags, WLC_EVENT_MSG_LINK) THEN BitOr(js, JOIN_LINK_READY)
            ELSE BitClear(js, JOIN_LINK_READY)
      [] e.type \in {"WLC_E_DEAUTH_IND", "WLC_E_DISASSOC_IND"} ->
            BitClear(js, JOIN_AUTHENTICATED)
      [] e.type = "WLC_E_AUTH" ->
            IF e.status = "WLC_E_STATUS_SUCCESS" THEN BitOr(js, JOIN_AUTHENTICATED) ELSE js
      [] OTHER -> js

\* the switch of whd_wifi_join_events_handler: the join status after event e
HandlerStatus(js, e) ==
    CASE e.type = "WLC_E_PSK_SUP" ->
            IF HasBit(js, JOIN_LINK_READY)
            THEN IF e.status = "WLC_SUP_KEYED"
                 THEN BitOr(BitClear(js, JOIN_SECURITY_FLAGS_MASK), JOIN_SECURITY_COMPLETE)
                 ELSE IF e.status = "WLC_SUP_KEYXCHANGE_WAIT_M1"
                         /\ e.reason = "WLC_E_SUP_WPA_PSK_TMO"
                 THEN BitOr(js, JOIN_EAPOL_KEY_M1_TIMEOUT)
                 ELSE IF e.status = "WLC_SUP_KEYXCHANGE_WAIT_M3"
                         /\ e.reason = "WLC_E_SUP_WPA_PSK_TMO"
                 THEN BitOr(js, JOIN_EAPOL_KEY_M3_TIMEOUT)
                 ELSE IF e.status = "WLC_SUP_KEYXCHANGE_WAIT_G1"
                         /\ e.reason = "WLC_E_SUP_WPA_PSK_TMO"
                 THEN BitOr(js, JOIN_EAPOL_KEY_G1_TIMEOUT)
                 ELSE BitOr(js, JOIN_EAPOL_KEY_FAILURE)
            ELSE js
      [] e.type = "WLC_E_SET_SSID" ->
            IF e.status = "WLC_E_STATUS_SUCCESS" THEN BitOr(js, JOIN_SSID_SET)
            ELSE IF e.status = "WLC_E_STATUS_NO_NETWORKS" THEN BitOr(js, JOIN_NO_NETWORKS)
            ELSE js
      [] e.type = "WLC_E_LINK" ->
            IF HasBit(e.flags, WLC_EVENT_MSG_LINK) THEN BitOr(js, JOIN_LINK_READY)
            ELSE BitClear(js, JOIN_LINK_READY)
      [] e.type \in {"WLC_E_DEAUTH_IND", "WLC_E_DISASSOC_IND"} ->
            BitClear(js, JOIN_AUTHENTICATED + JOIN_LINK_READY)
      [] e.type = "WLC_E_AUTH" ->
            IF e.status = "WLC_E_STATUS_SUCCESS" THEN BitOr(js, JOIN_AUTHENTICATED) ELSE js
      [] OTHER -> js

\* the switch of whd_wifi_join_events_handler: whether event e itself sets
\* join_attempt_complete
HandlerComplete(js, e) ==
    CASE e.type = "WLC_E_PSK_SUP" ->
            HasBit(js, JOIN_LINK_READY) /\ e.status # "WLC_SUP_KEYED"
      [] e.type = "WLC_E_SET_SSID" ->
            e.status \notin {"WLC_E_STATUS_SUCCESS", "WLC_E_STATUS_NO_NETWORKS"}
      [] e.type = "WLC_E_AUTH" ->
            e.status \notin {"WLC_E_STATUS_SUCCESS", "WLC_E_STATUS_UNSOLICITED"}
      [] OTHER -> FALSE


\* ------------------------------------------------------------------------
\* Arguments of the API calls
\* ------------------------------------------------------------------------
AuthTypes == {"WHD_SECURITY_OPEN", "WHD_SECURITY_WPA2_AES_PSK", "WHD_SECURITY_WPA3_SAE",
              "WHD_SECURITY_WPA_TKIP_PSK", "WHD_SECURITY_WEP_PSK", "WHD_SECURITY_WPA2_FBT_PSK",
              "WHD_SECURITY_WPA_MIXED_PSK"}
KeyLengths == {WSEC_MIN_PSK_LEN - 1, WSEC_MIN_PSK_LEN, WSEC_MAX_SAE_PASSWORD_LEN + 1}

\* ssid argument of whd_wifi_join: a null pointer, or an SSID of some length
SsidArgs == {[null |-> TRUE, length |-> 0]}
            \cup {[null |-> FALSE, length |-> l] : l \in {0, SSID_NAME_SIZE, SSID_NAME_SIZE + 1}}

ValidSsid == [null |-> FALSE, length |-> SSID_NAME_SIZE]

\* ap argument of whd_wifi_join_specific: a valid record and one deviation each
ValidAp == [bss_type |-> "WHD_BSS_TYPE_INFRASTRUCTURE", channel |-> 6,
            band |-> "WHD_802_11_BAND_2_4GHZ", BSSID |-> "unicast", ssid_length |-> 4]
ApArgs == {ValidAp,
           [ValidAp EXCEPT !.channel = 0, !.band = "invalid"],
           [ValidAp EXCEPT !.band = "WHD_802_11_BAND_5GHZ"],
           [ValidAp EXCEPT !.band = "WHD_802_11_BAND_6GHZ"],
           [ValidAp EXCEPT !.band = "invalid"],
           [ValidAp EXCEPT !.bss_type = "WHD_BSS_TYPE_MESH"],
           [ValidAp EXCEPT !.bss_type = "WHD_BSS_TYPE_ADHOC"],
           [ValidAp EXCEPT !.BSSID = "zero"],
           [ValidAp EXCEPT !.BSSID = "broadcast"],
           [ValidAp EXCEPT !.ssid_length = 0],
           [ValidAp EXCEPT !.ssid_length = SSID_NAME_SIZE + 1]}

\* ------------------------------------------------------------------------
\* State
\* ------------------------------------------------------------------------
VARIABLES
    chip_id,                \* whd_driver->chip_info.chip_id
    role,                   \* ifp->role
    whd_join_status,        \* internal_info.whd_join_status[ifp->bsscfgidx]
    keep_wlan_awake,        \* internal_info.whd_wlan_status.keep_wlan_awake
    active_join_mutex,      \* active_join_mutex_initted and the semaphore's count
    active_join_semaphore,  \* internal_info.active_join_semaphore
    join_sema,              \* the join semaphore on each thread's stack
    join_entry,             \* ifp->event_reg_list[WHD_JOIN_EVENT_ENTRY] and its
                            \* handler_user_data in the event table
    pc,                     \* position of each application thread
    loc,                    \* locals of the call each thread is in
    ret,                    \* value returned by each thread's last call
    worker,                 \* position and locals of the join handler on the
                            \* driver worker thread
    hist,                   \* per call: what the call has done so far
    script,                 \* the join events the firmware sends: any (free), or a
                            \* given sequence of which todo is still to come
    ncalls,                 \* API calls started
    nevents,                \* join events delivered
    clock,                  \* the millisecond tick that cy_rtos_get_time reads
    auth_entry,             \* ifp->event_reg_list[WHD_AUTH_EVENT_ENTRY] and
                            \* auth_result_callback
    scan,                   \* ifp->event_reg_list[WHD_SCAN_EVENT_ENTRY] with its
                            \* user data, scan_result_callback, whd_scan_result_ptr,
                            \* and whether the firmware is running an escan
    scan_log,               \* per escan event of the firmware's current scan: what
                            \* the scan handler did with it
    bus,                    \* whd_bus_is_up, chip_info.save_restore_enable, and the
                            \* position and locals of whd_ensure_wlan_bus_is_up
    wlan,                   \* whd_wlan_status.state, the driver and interface allocations,
                            \* the bus attachment, and what the last lifecycle call did
    synch,                  \* the scan_userdata on the stack of whd_wifi_scan_synch, its
                            \* scan_result_ptr, and the caller's array and count
    worker_info,            \* the cy_worker_thread_info_t of one worker thread, its thread,
                            \* and the calls of delete and enqueue in progress
    dhcp                    \* the DHCP server: its client cache, the next available address,
                            \* the addresses of its interface and its last reply

vars == <<chip_id, role, whd_join_status, keep_wlan_awake, active_join_mutex,
          active_join_semaphore, join_sema, join_entry, pc, loc, ret, worker, hist,
          script, ncalls, nevents, clock, auth_entry, scan, scan_log, bus, wlan, synch, worker_info, dhcp>>

\* the firmware may send any join event at any time, max in all
FreeScript(max) == [free |-> TRUE, max |-> max, name |-> "-", auth_type |-> "-",
                    todo |-> <<>>, done |-> <<>>]

\* the firmware sends the join events evs in this order and nothing else, to a
\* join made with security a; done are the events that have been handled
FixedScript(n, a, evs) == [free |-> FALSE, max |-> Len(evs), name |-> n, auth_type |-> a,
                          todo |-> evs, done |-> <<>>]

\* which signal a semaphore holds or a thread was woken by: the join event
\* whose handler signalled (ev, its number among the events delivered) and the
\* join status that event's handler wrote (js); the record is wiped when a
\* later event is handled
NoSig == [ev |-> 0, js |-> 0]

\* sae: the WHD_FWCAP_SAE bit of chip_info.fwcap_flags as the command-by-command
\* prepare reads it;
\* blocked: milliseconds spent so far in the cy_rtos_get_semaphore call in
\* progress; woken: the signal that ended the last cy_rtos_get_semaphore
NoLoc == [op |-> "none", auth_type |-> "-", ibss |-> FALSE, key_length |-> 0,
          result |-> "-", start_time |-> 0, blocked |-> 0, woken |-> NoSig, sae |-> FALSE,
          callback |-> NULL, result_ptr |-> NULL]
\* waited: milliseconds the call has spent blocked on its join semaphore;
\* ioctl: the call has handed an IOCTL or IOVAR to the bus for the firmware;
\* join_iovar, set_ssid: what the associate step of the call sent;
\* cmds: the commands of prepare in the order performed, each with its outcome,
\* where prepare is followed command by command;
\* dereg: calls of whd_wifi_deregister_event_handler the call has made;
\* prev: what the thread's previous call left, where that was a call of the
\* same deregistering operation;
\* ev0, ev1: how many join events of a fixed script had been handled when
\* prepare cleared the join status and when the wait last read it
NoHist == [op |-> "none", net_wake |-> 0, sem_created |-> FALSE, cleanup |-> FALSE,
           leave |-> FALSE, stage |-> "-", script_done |-> FALSE, waited |-> 0,
           ioctl |-> FALSE, join_iovar |-> "-", set_ssid |-> FALSE, cmds |-> <<>>,
           ev0 |-> 0, ev1 |-> 0, dereg |-> 0, prev |-> {}]
\* the active-join mutex: a semaphore of maximum count 1; holder is the thread
\* that has taken it and not yet set it again
\* the bus down, no save/restore, whd_ensure_wlan_bus_is_up not called;
\* polls, seen, writes and waited are what the call has done: reads of the
\* CSR, whether one of them found what the call waits for, writes of the
\* sleep CSR before the first read, and milliseconds slept
\* bt_int_cb: a Bluetooth device with an interrupt callback is attached;
\* written: the values written to the sleep CSR
IdleBus == [up |-> FALSE, save_restore_enable |-> FALSE, pc |-> "idle", attempts |-> 0,
            ret |-> "-", path |-> "-", polls |-> 0, seen |-> FALSE, writes |-> 0,
            waited |-> 0, bt_int_cb |-> FALSE, written |-> {}]
\* no driver allocated; ulp: the build has CYCFG_ULP_SUPPORT_ENABLED; op, ret,
\* pre, cmds and freed are the last lifecycle call, what it returned, the
\* state it found, the WLC commands it sent with their results, and what it
\* freed
NoWlan == [state |-> "WLAN_OFF", driver |-> "none", bus_attached |-> FALSE, iflist |-> {},
           ulp |-> FALSE, op |-> "-", ret |-> "-", pre |-> "-", cmds |-> <<>>,
           freed |-> {}]
\* the MAC address of all zeroes, which marks an empty slot of the cache
empty_cache == 0
\* the DHCP server before its thread runs: the two cache arrays zeroed;
\* reply is the last reply sent
NoDhcp == [cached_mac_addresses |-> [a \in 0..(DHCP_IP_ADDRESS_CACHE_MAX - 1) |-> empty_cache],
           cached_ip_addresses |-> [a \in 0..(DHCP_IP_ADDRESS_CACHE_MAX - 1) |-> 0],
           next_available_ip_addr |-> 0, ip_mask |-> 0, subnet |-> 0, local_ip_address |-> 0,
           reply |-> [type |-> "-", mac |-> 0, your_ip_addr |-> 0]]
\* the threads that call cy_worker_thread_enqueue
Enqueuers == {"e1", "e2"}
\* a call of delete or enqueue: where it is, what it returned, the result of
\* its cy_rtos_queue_put, how many calls the thread has made, and the state
\* the call found
NoCall == [pc |-> "idle", ret |-> "-", result |-> "-", calls |-> 0, found |-> "-"]
\* no worker created: the structure zeroed. state and enqueue_count are the
\* fields of cy_worker_thread_info_t, event_queue the items in the queue,
\* thread the worker thread; queued lists every item ever put in the queue,
\* in order, and done the work items the thread has run
NoWorkerInfo == [state |-> "CY_WORKER_THREAD_INVALID", enqueue_count |-> 0,
                 event_queue |-> <<>>, thread |-> "none", queued |-> <<>>, done |-> <<>>,
                 del |-> NoCall, enq |-> [e \in Enqueuers |-> NoCall]]
\* no call of whd_wifi_scan_synch yet. count, offset and scan_semaphore are
\* scan_userdata, a local of the call, and live says that the call has not
\* returned; out is the caller's *count; ptr is scan_result_ptr; N is the
\* count the call was made with; written lists the indexes of the caller's
\* array in the order in which records were written to them; reported counts
\* the WHD_SCAN_INCOMPLETE callbacks
NoSynch == [count |-> 0, offset |-> 0, scan_semaphore |-> [alive |-> FALSE, count |-> 0],
            live |-> FALSE, out |-> 0, ptr |-> "none", N |-> 0, written |-> <<>>,
            reported |-> 0]
\* no scan handler registered, no scan callback, no scan in the firmware
NoScan == [entry |-> [registered |-> FALSE, user_data |-> NULL], callback |-> NULL,
           result_ptr |-> NULL, fw |-> FALSE]
\* the auth category of the event registration table, and the driver's
\* auth_result_callback
NoAuth == [registered |-> FALSE, user_data |-> NULL, callback |-> NULL]
NoMutex == [initted |-> FALSE, count |-> 0, holder |-> NULL]
NewMutex == [initted |-> TRUE, count |-> 1, holder |-> NULL]
DeadSema == [alive |-> FALSE, count |-> 0, sig |-> NoSig]
NewSema == [alive |-> TRUE, count |-> 0, sig |-> NoSig]
IdleWorker == [pc |-> "idle", semaphore |-> NULL, sig |-> NoSig]

InitAt(sc, c) ==
    /\ clock = c
    /\ dhcp = NoDhcp
    /\ worker_info = NoWorkerInfo
    /\ synch = NoSynch
    /\ wlan = NoWlan
    /\ bus = IdleBus
    /\ scan_log = <<>>
    /\ scan = NoScan
    /\ auth_entry = NoAuth
    /\ chip_id \in ChipIds
    /\ role = "WHD_INVALID_ROLE"
    /\ whd_join_status = 0
    /\ keep_wlan_awake = 0
    /\ active_join_mutex = NoMutex
    /\ active_join_semaphore = NULL
    /\ join_sema = [t \in Threads |-> DeadSema]
    /\ join_entry = [registered |-> FALSE, user_data |-> NULL]
    /\ pc = [t \in Threads |-> "idle"]
    /\ loc = [t \in Threads |-> NoLoc]
    /\ ret = [t \in Threads |-> "-"]
    /\ worker = IdleWorker
    /\ hist = [t \in Threads |-> NoHist]
    /\ script = sc
    /\ ncalls = 0
    /\ nevents = 0

\* the tick count has no bearing on a behaviour in which the clock stands
InitWith(sc) == InitAt(sc, 0)

Init == InitWith(FreeScript(MaxEvents))


\* ------------------------------------------------------------------------
\* Helpers of the application-thread actions
\* ------------------------------------------------------------------------
Idle(t) == pc[t] \in {"idle", "done"}

\* what a call of the deregistering operation op by thread t has left behind:
\* its return value and the category's entry, and for a leave the interface
DeregEffect(t, op) ==
    IF op = "leave"
    THEN [ret |-> ret[t], role |-> role, whd_join_status |-> whd_join_status,
          entry |-> join_entry, mutex |-> active_join_mutex.initted]
    ELSE [ret |-> ret[t], role |-> "-", whd_join_status |-> 0,
          entry |-> [registered |-> auth_entry.registered,
                     user_data |-> auth_entry.callback], mutex |-> FALSE]

\* the history with which thread t starts a call of the deregistering
\* operation op
DeregHist(t, op) ==
    [NoHist EXCEPT !.prev = IF pc[t] = "done" /\ hist[t].op = op
                            THEN {DeregEffect(t, op)} ELSE {}]

\* history of a call of op that thread t starts now
BeginHist(t, op, h) == [hist EXCEPT ![t] = [h EXCEPT !.op = op]]

\* thread t returns code from its call; stage names the step that decided it
Return(t, code, stage, h) ==
    /\ pc' = [pc EXCEPT ![t] = "done"]
    /\ ret' = [ret EXCEPT ![t] = code]
    /\ loc' = [loc EXCEPT ![t] = NoLoc]
    /\ hist' = [h EXCEPT ![t].stage = stage]

\* a set of the active-join mutex that does not happen
MutexKept(m) == m

\* cy_rtos_set_semaphore on the active-join mutex (max count 1)
MutexReleased(m) == IF m.initted THEN [m EXCEPT !.count = 1, !.holder = NULL] ELSE m

\* a join semaphore that the handler of the event of sig has set
Signalled(sm, sig) == IF sm.alive /\ sm.count = 1 THEN [sm EXCEPT !.sig = sig] ELSE sm

\* a set of the join semaphore that is lost
SemaSetLost(sm) == sm

\* cy_rtos_set_semaphore on a join semaphore (max count 1)
SemaSet(sm) == IF sm.alive THEN [sm EXCEPT !.count = 1] ELSE sm

\* ------------------------------------------------------------------------
\* whd_wifi_join: argument checks, wake-lock, role, join semaphore
\* ------------------------------------------------------------------------
whd_wifi_join(t, ssid, auth_type, key_length) ==
    /\ Idle(t)
    /\ ncalls' = ncalls + 1
    /\ IF ssid.null
       THEN /\ Return(t, "WHD_BADARG", "args", BeginHist(t, "join", NoHist))
            /\ UNCHANGED <<dhcp, worker_info, synch, wlan, bus, scan_log, scan, auth_entry, keep_wlan_awake, role, join_sema>>
       ELSE IF ssid.length = 0 \/ ssid.length > SSID_NAME_SIZE
       THEN /\ Return(t, "WHD_WLAN_BADSSIDLEN", "args", BeginHist(t, "join", NoHist))
            /\ UNCHANGED <<dhcp, worker_info, synch, wlan, bus, scan_log, scan, auth_entry, keep_wlan_awake, role, join_sema>>
       ELSE /\ keep_wlan_awake' = keep_wlan_awake + 1
            /\ role' = "WHD_STA_ROLE"
            /\ join_sema' = [join_sema EXCEPT ![t] = NewSema]
            /\ pc' = [pc EXCEPT ![t] = "active_join_init"]
            /\ loc' = [loc EXCEPT ![t] = [NoLoc EXCEPT !.op = "join", !.auth_type = auth_type,
                                                       !.key_length = key_length]]
            /\ hist' = BeginHist(t, "join",
                                  [NoHist EXCEPT !.net_wake = 1, !.sem_created = TRUE])
            /\ ret' = [ret EXCEPT ![t] = "-"]
    /\ UNCHANGED <<dhcp, worker_info, synch, wlan, bus, scan_log, scan, auth_entry, clock, chip_id, whd_join_status, active_join_mutex, active_join_semaphore,
                   join_entry, worker, script, nevents>>

\* ------------------------------------------------------------------------
\* whd_wifi_join_specific: wake-lock and role first, then the argument checks
\* ------------------------------------------------------------------------
JoinSpecificArgCheck(ap) ==
    IF ap.bss_type = "WHD_BSS_TYPE_MESH" THEN "WHD_UNSUPPORTED"
    ELSE IF ap.channel # 0
            /\ ap.band \notin {"WHD_802_11_BAND_2_4GHZ", "WHD_802_11_BAND_5GHZ",
                               "WHD_802_11_BAND_6GHZ"}
    THEN "WHD_BADARG"
    ELSE IF ap.BSSID = "zero" THEN "WHD_BADARG"
    ELSE IF ap.BSSID = "broadcast" THEN "WHD_BADARG"
    ELSE IF ap.ssid_length = 0 \/ ap.ssid_length > SSID_NAME_SIZE THEN "WHD_WLAN_BADSSIDLEN"
    ELSE "WHD_SUCCESS"

whd_wifi_join_specific(t, ap, auth_type, key_length) ==
    /\ Idle(t)
    /\ ncalls' = ncalls + 1
    /\ keep_wlan_awake' = keep_wlan_awake + 1
    /\ role' = "WHD_STA_ROLE"
    /\ IF JoinSpecificArgCheck(ap) # "WHD_SUCCESS"
       THEN /\ Return(t, JoinSpecificArgCheck(ap), "args",
                      BeginHist(t, "join_specific", [NoHist EXCEPT !.net_wake = 1]))
            /\ UNCHANGED join_sema
       ELSE /\ join_sema' = [join_sema EXCEPT ![t] = NewSema]
            /\ pc' = [pc EXCEPT ![t] = "active_join_init"]
            /\ loc' = [loc EXCEPT ![t] =
                          [NoLoc EXCEPT !.op = "join_specific", !.auth_type = auth_type,
                                        !.ibss = (ap.bss_type = "WHD_BSS_TYPE_ADHOC"),
                                        !.key_length = key_length]]
            /\ hist' = BeginHist(t, "join_specific",
                                  [NoHist EXCEPT !.net_wake = 1, !.sem_created = TRUE])
            /\ ret' = [ret EXCEPT ![t] = "-"]
    /\ UNCHANGED <<dhcp, worker_info, synch, wlan, bus, scan_log, scan, auth_entry, clock, chip_id, whd_join_status, active_join_mutex, active_join_semaphore,
                   join_entry, worker, script, nevents>>

\* ------------------------------------------------------------------------
\* whd_wifi_active_join_init
\* ------------------------------------------------------------------------
\* create the active-join mutex if it does not exist
active_join_init_mutex(t) ==
    /\ pc[t] = "active_join_init"
    /\ active_join_mutex' = IF active_join_mutex.initted THEN active_join_mutex
                            ELSE NewMutex
    /\ pc' = [pc EXCEPT ![t] = "active_join_get"]
    /\ UNCHANGED <<dhcp, worker_info, synch, wlan, bus, scan_log, scan, auth_entry, clock, chip_id, role, whd_join_status, keep_wlan_awake, active_join_semaphore,
                   join_sema, join_entry, loc, ret, worker, hist, script,
                   ncalls, nevents>>

\* results of cy_rtos_get_semaphore(&active_join_mutex, CY_RTOS_NEVER_TIMEOUT):
\* the mutex is taken when it is free and the call blocks while it is held; on
\* a mutex that whd_wifi_leave has destroyed the call returns an error
MutexGetOutcomes(m) ==
    IF ~m.initted THEN {"error"}
    ELSE IF m.count = 1 THEN {"taken"}
    ELSE {}

MutexAfterGet(m, o) == IF o = "taken" THEN [m EXCEPT !.count = 0] ELSE m

\* the mutex after who has called cy_rtos_get_semaphore on it with outcome o
MutexGotBy(m, o, who) ==
    IF o = "taken" THEN [MutexAfterGet(m, o) EXCEPT !.holder = who] ELSE MutexAfterGet(m, o)

\* CHECK_RETURN(cy_rtos_get_semaphore(&active_join_mutex, ...))
active_join_init_get(t) ==
    /\ pc[t] = "active_join_get"
    /\ \E o \in MutexGetOutcomes(active_join_mutex) :
        /\ active_join_mutex' = MutexGotBy(active_join_mutex, o, t)
        /\ IF o = "taken"
           THEN /\ pc' = [pc EXCEPT ![t] = "active_join_set"]
                /\ UNCHANGED <<dhcp, worker_info, synch, wlan, bus, scan_log, scan, auth_entry, loc, hist>>
           ELSE /\ pc' = [pc EXCEPT ![t] = "deinit_get"]
                /\ loc' = [loc EXCEPT ![t].result = "WHD_RTOS_ERROR"]
                /\ hist' = [hist EXCEPT ![t].stage = "init"]
    /\ UNCHANGED <<dhcp, worker_info, synch, wlan, bus, scan_log, scan, auth_entry, clock, chip_id, role, whd_join_status, keep_wlan_awake, active_join_semaphore,
                   join_sema, join_entry, ret, worker, script, ncalls, nevents>>

\* install the caller's semaphore as the active-join semaphore, release the mutex
active_join_init_set(t) ==
    /\ pc[t] = "active_join_set"
    /\ active_join_semaphore' = t
    /\ active_join_mutex' = MutexReleased(active_join_mutex)
    /\ pc' = [pc EXCEPT ![t] = "prepare_check"]
    /\ UNCHANGED <<dhcp, worker_info, synch, wlan, bus, scan_log, scan, auth_entry, clock, chip_id, role, whd_join_status, keep_wlan_awake, join_sema, join_entry,
                   loc, ret, worker, hist, script, ncalls, nevents>>


\* ------------------------------------------------------------------------
\* whd_wifi_prepare_join
\* ------------------------------------------------------------------------
\* the argument checks at the head of whd_wifi_prepare_join; ibss is the
\* IBSS_ENABLED bit that whd_wifi_join_specific adds for an ad-hoc BSS, which
\* makes the security value differ from every plain enumerator
PrepareCheck(chip, auth_type, ibss, key_length) ==
    IF chip = 43022 /\ ~ibss
       /\ auth_type \in {"WHD_SECURITY_WPA_TKIP_PSK", "WHD_SECURITY_WPA_MIXED_PSK"}
    THEN "WHD_UNSUPPORTED"
    ELSE IF (~ibss /\ auth_type = "WHD_SECURITY_WPA2_FBT_PSK")
            \/ (ibss /\ auth_type = "WHD_SECURITY_OPEN")
    THEN "WHD_UNKNOWN_SECURITY_TYPE"
    ELSE IF auth_type = "WHD_SECURITY_WEP_PSK"
    THEN "WHD_WEP_NOT_ALLOWED"
    ELSE IF ~ibss
            /\ \/ /\ key_length > WSEC_MAX_PSK_LEN \/ key_length < WSEC_MIN_PSK_LEN
                  /\ auth_type \in {"WHD_SECURITY_WPA_TKIP_PSK", "WHD_SECURITY_WPA2_AES_PSK"}
               \/ /\ key_length > WSEC_MAX_SAE_PASSWORD_LEN
                  /\ auth_type \in {"WHD_SECURITY_WPA3_SAE", "WHD_SECURITY_WPA3_WPA2_PSK"}
    THEN "WHD_INVALID_KEY"
    ELSE "WHD_SUCCESS"

\* argument checks, then "Clear the current join status"
prepare_join_check(t) ==
    /\ pc[t] = "prepare_check"
    /\ LET r == PrepareCheck(chip_id, loc[t].auth_type, loc[t].ibss, loc[t].key_length) IN
       IF r # "WHD_SUCCESS"
       THEN /\ pc' = [pc EXCEPT ![t] = "deinit_get"]
            /\ loc' = [loc EXCEPT ![t].result = r]
            /\ hist' = [hist EXCEPT ![t].stage = "prepare"]
            /\ UNCHANGED whd_join_status
       ELSE /\ pc' = [pc EXCEPT ![t] = "prepare_config"]
            /\ whd_join_status' = 0
            /\ hist' = [hist EXCEPT ![t].ev0 = Len(script.done)]
            /\ UNCHANGED loc
    /\ UNCHANGED <<dhcp, worker_info, synch, wlan, bus, scan_log, scan, auth_entry, clock, chip_id, role, keep_wlan_awake, active_join_mutex, active_join_semaphore,
                   join_sema, join_entry, ret, worker, script, ncalls, nevents>>

\* prepare as it would be if it also marked an open network authenticated
PrepareStatusAuthenticated(js, auth_type, ibss) ==
    IF auth_type = "WHD_SECURITY_OPEN" /\ ~ibss
    THEN BitOr(js, JOIN_SECURITY_COMPLETE + JOIN_AUTHENTICATED)
    ELSE js

\* what the switch on auth_type before WLC_SET_WPA_AUTH does to the join status
PrepareStatus(js, auth_type, ibss) ==
    IF auth_type = "WHD_SECURITY_OPEN" /\ ~ibss THEN BitOr(js, JOIN_SECURITY_COMPLETE)
    ELSE js

JoinCalls == {"join", "join_specific"}

\* the "Send WPA Key" switch of prepare: whd_wifi_set_passphrase for the PSK
\* types and whd_wifi_sae_password for WPA3_SAE on firmware with the SAE
\* capability (sae) check the key length before they send the key; a
\* security value with the IBSS_ENABLED bit takes the default case
SendKey(auth_type, ibss, sae, key_length) ==
    IF ibss THEN "WHD_SUCCESS"
    ELSE IF auth_type \in {"WHD_SECURITY_WPA_TKIP_PSK", "WHD_SECURITY_WPA_MIXED_PSK",
                           "WHD_SECURITY_WPA2_AES_PSK"}
            /\ (key_length < KEY_MIN_LEN \/ key_length > KEY_MAX_LEN)
    THEN "WHD_WLAN_BADARG"
    ELSE IF auth_type = "WHD_SECURITY_WPA3_WPA2_PSK"
            /\ (key_length > WSEC_MAX_PSK_LEN \/ key_length < WSEC_MIN_PSK_LEN)
    THEN "WHD_INVALID_KEY"
    ELSE IF auth_type \in {"WHD_SECURITY_WPA3_SAE", "WHD_SECURITY_WPA3_WPA2_PSK"} /\ sae
            /\ (key_length = 0 \/ key_length > WSEC_MAX_SAE_PASSWORD_LEN)
    THEN "WHD_WLAN_BADARG"
    ELSE "WHD_SUCCESS"

\* the firmware configuration commands of prepare (MFP, WSEC, roam_off,
\* supplicant, key install, INFRA, AUTH, WPA_AUTH): all succeed, or one of
\* those whose result is checked fails, either before the join status is
\* touched or at the final WLC_SET_WPA_AUTH; the key install, reached after
\* WLC_SET_WSEC and the supplicant IOVARs have been sent, returns at once when
\* the key length is refused
prepare_join_config(t) ==
    /\ pc[t] = "prepare_config"
    /\ \E outcome \in {"ok", "fail_early", "fail_wpa_auth"}, sae \in BOOLEAN :
        LET key == SendKey(loc[t].auth_type, loc[t].ibss, sae, loc[t].key_length) IN
        /\ whd_join_status' =
              IF outcome = "fail_early" \/ key # "WHD_SUCCESS" THEN whd_join_status
              ELSE PrepareStatus(whd_join_status, loc[t].auth_type, loc[t].ibss)
        /\ IF outcome = "ok" /\ key = "WHD_SUCCESS"
           THEN /\ pc' = [pc EXCEPT ![t] = "prepare_register"]
                /\ loc' = [loc EXCEPT ![t].auth_type = "-", ![t].ibss = loc[t].ibss,
                                      ![t].key_length = 0]
                /\ hist' = [hist EXCEPT ![t].ioctl = TRUE]
           ELSE /\ pc' = [pc EXCEPT ![t] = "deinit_get"]
                /\ loc' = [loc EXCEPT ![t].result = IF outcome = "fail_early"
                                                       \/ key = "WHD_SUCCESS"
                                                    THEN "WHD_IOCTL_FAIL" ELSE key,
                                      ![t].key_length = 0]
                /\ hist' = [hist EXCEPT ![t].stage = "prepare", ![t].ioctl = TRUE]
    /\ UNCHANGED <<dhcp, worker_info, synch, wlan, bus, scan_log, scan, auth_entry, clock, chip_id, role, keep_wlan_awake, active_join_mutex, active_join_semaphore,
                   join_sema, join_entry, ret, worker, script, ncalls, nevents>>

\* ------------------------------------------------------------------------
\* whd_wifi_prepare_join followed command by command
\* ------------------------------------------------------------------------
\* a command of prepare and what prepare does with its result: "return"
\* (CHECK_RETURN), "unsupported_continue" (CHECK_RETURN_UNSUPPORTED_CONTINUE),
\* "ignore" (cast to void, called as a statement, or only logged); "check" is
\* a test of the key length that returns an error without a command
Cmd(name, kind) == [name |-> name, kind |-> kind]

PskTypes == {"WHD_SECURITY_WPA_TKIP_PSK", "WHD_SECURITY_WPA_MIXED_PSK",
             "WHD_SECURITY_WPA2_AES_PSK"}

\* whd_wifi_set_passphrase
SetPassphraseCommands ==
    <<Cmd("passphrase_length", "check"), Cmd("delay_passphrase", "return"),
      Cmd("WLC_SET_WSEC_PMK", "return")>>

\* whd_wifi_sae_password: the result of its delay is not looked at
SaePasswordCommands ==
    <<Cmd("sae_password_length", "check"), Cmd("delay_sae_password", "ignore"),
      Cmd("sae_password", "return")>>

\* whd_wifi_enable_sup_set_passphrase
EnableSupSetPassphraseCommands ==
    <<Cmd("psk_length", "check"), Cmd("enable_sup:sup_wpa", "ignore")>>
    \o SetPassphraseCommands

\* the "Send WPA Key" switch
SendKeyCommands(auth_type, ibss, sae) ==
    IF ibss THEN <<>>
    ELSE IF auth_type \in PskTypes
    THEN <<Cmd("sup_wpa_tmo", "unsupported_continue")>> \o SetPassphraseCommands
    ELSE IF auth_type \in {"WHD_SECURITY_WPA3_SAE", "WHD_SECURITY_WPA3_WPA2_PSK"}
    THEN (IF auth_type = "WHD_SECURITY_WPA3_WPA2_PSK" THEN EnableSupSetPassphraseCommands
          ELSE <<>>)
         \o <<Cmd("sup_wpa_tmo", "unsupported_continue")>>
         \o (IF sae THEN SaePasswordCommands ELSE <<Cmd("roam_off=1", "return")>>)
    ELSE <<>>

\* "if (auth_type != WHD_SECURITY_OPEN) CHECK_RETURN(whd_wifi_get_iovar_value(
\* ifp, IOVAR_STR_MFP, &auth_mfp))"
MfpGet(auth_type, ibss) ==
    IF auth_type = "WHD_SECURITY_OPEN" /\ ~ibss THEN <<>>
    ELSE <<Cmd("mfp_get", "return")>>

\* the commands of whd_wifi_prepare_join after "Clear the current join
\* status", in the order of the code
PrepareCommands(chip, auth_type, ibss, sae) ==
    MfpGet(auth_type, ibss)
    \o <<Cmd("WLC_SET_WSEC", "return"), Cmd("roam_off=0", "return")>>
    \o (IF chip = 43022
        THEN <<Cmd("bsscfg:wpa_auth", "return"), Cmd("bsscfg:wsec", "return"),
               Cmd("wowl", "return")>>
        ELSE <<>>)
    \o <<Cmd("bsscfg:sup_wpa", "ignore"), Cmd("bsscfg:sup_wpa2_eapver", "ignore")>>
    \o SendKeyCommands(auth_type, ibss, sae)
    \o <<Cmd("WLC_SET_INFRA", "return"), Cmd("WLC_SET_AUTH", "return"),
         Cmd("mfp_set", "ignore"), Cmd("WLC_SET_WPA_AUTH", "return")>>

\* the key length tests of whd_wifi_set_passphrase, whd_wifi_sae_password and
\* whd_wifi_enable_sup_set_passphrase
KeyCheck(name, key_length) ==
    CASE name = "passphrase_length" ->
            IF key_length < KEY_MIN_LEN \/ key_length > KEY_MAX_LEN
            THEN "WHD_WLAN_BADARG" ELSE "WHD_SUCCESS"
      [] name = "sae_password_length" ->
            IF key_length = 0 \/ key_length > WSEC_MAX_SAE_PASSWORD_LEN
            THEN "WHD_WLAN_BADARG" ELSE "WHD_SUCCESS"
      [] name = "psk_length" ->
            IF key_length > WSEC_MAX_PSK_LEN \/ key_length < WSEC_MIN_PSK_LEN
            THEN "WHD_INVALID_KEY" ELSE "WHD_SUCCESS"

\* what a command can return
CmdOutcomes(c, key_length) ==
    IF c.kind = "check" THEN {KeyCheck(c.name, key_length)}
    ELSE IF c.kind = "unsupported_continue"
    THEN {"WHD_SUCCESS", "WHD_WLAN_UNSUPPORTED", "WHD_IOCTL_FAIL"}
    ELSE IF c.name \in {"delay_passphrase", "delay_sae_password"}
    THEN {"WHD_SUCCESS", "CY_RTOS_GENERAL_ERROR"}
    ELSE {"WHD_SUCCESS", "WHD_IOCTL_FAIL"}

\* prepare returns the outcome o of command c at once
CmdReturns(c, o) ==
    CASE c.kind \in {"return", "check"} -> o # "WHD_SUCCESS"
      [] c.kind = "unsupported_continue" -> o \notin {"WHD_SUCCESS", "WHD_WLAN_UNSUPPORTED"}
      [] c.kind = "ignore" -> FALSE

\* the next command of prepare; after the last one prepare goes on to
\* register the join handler
prepare_join_command(t) ==
    /\ pc[t] = "prepare_config"
    /\ LET cmds == PrepareCommands(chip_id, loc[t].auth_type, loc[t].ibss, loc[t].sae)
           c == cmds[Len(hist[t].cmds) + 1]
       IN \E o \in CmdOutcomes(c, loc[t].key_length) :
           LET done == Append(hist[t].cmds, [name |-> c.name, outcome |-> o])
               sent == hist[t].ioctl \/ (c.kind # "check" /\ c.name \notin
                                           {"delay_passphrase", "delay_sae_password"})
           IN /\ whd_join_status' =
                    IF c.name = "WLC_SET_WPA_AUTH"
                    THEN PrepareStatus(whd_join_status, loc[t].auth_type, loc[t].ibss)
                    ELSE whd_join_status
              /\ IF CmdReturns(c, o)
                 THEN /\ pc' = [pc EXCEPT ![t] = "deinit_get"]
                      /\ loc' = [loc EXCEPT ![t].result = o, ![t].key_length = 0]
                      /\ hist' = [hist EXCEPT ![t].stage = "prepare", ![t].ioctl = sent,
                                              ![t].cmds = done]
                 ELSE IF Len(done) = Len(cmds)
                 THEN /\ pc' = [pc EXCEPT ![t] = "prepare_register"]
                      /\ loc' = [loc EXCEPT ![t].key_length = 0]
                      /\ hist' = [hist EXCEPT ![t].ioctl = sent, ![t].cmds = done]
                 ELSE /\ hist' = [hist EXCEPT ![t].ioctl = sent, ![t].cmds = done]
                      /\ UNCHANGED <<dhcp, worker_info, synch, wlan, bus, scan_log, scan, auth_entry, pc, loc>>
    /\ UNCHANGED <<dhcp, worker_info, synch, wlan, bus, scan_log, scan, auth_entry, clock, chip_id, role, keep_wlan_awake, active_join_mutex, active_join_semaphore,
                   join_sema, join_entry, ret, worker, script, ncalls, nevents>>

\* deregister a join handler that is still registered, then register
\* whd_wifi_join_events_handler with the caller's semaphore as user data
prepare_join_register(t) ==
    /\ pc[t] = "prepare_register"
    /\ \E registered \in BOOLEAN :
        IF registered
        THEN /\ join_entry' = [registered |-> TRUE, user_data |-> t]
             /\ pc' = [pc EXCEPT ![t] = "associate"]
             /\ UNCHANGED <<dhcp, worker_info, synch, wlan, bus, scan_log, scan, auth_entry, loc, hist>>
        ELSE /\ join_entry' = [registered |-> FALSE, user_data |-> NULL]
             /\ pc' = [pc EXCEPT ![t] = "deinit_get"]
             /\ loc' = [loc EXCEPT ![t].result = "WHD_UNFINISHED"]
             /\ hist' = [hist EXCEPT ![t].stage = "prepare"]
    /\ UNCHANGED <<dhcp, worker_info, synch, wlan, bus, scan_log, scan, auth_entry, clock, chip_id, role, whd_join_status, keep_wlan_awake, active_join_mutex,
                   active_join_semaphore, join_sema, ret, worker, script, ncalls,
                   nevents>>

\* ------------------------------------------------------------------------
\* The associate command of whd_wifi_join / whd_wifi_join_specific
\* ------------------------------------------------------------------------
\* results of the "join" IOVAR of whd_wifi_join_specific
JoinIovarResults == {"WHD_SUCCESS", "WHD_WLAN_UNSUPPORTED", "WHD_IOCTL_FAIL"}

\* the fallback as it would be if any failure of the IOVAR led to it
SetSsidFallbackOnFailure(result) == result # "WHD_SUCCESS"

\* "if (result == WHD_WLAN_UNSUPPORTED)": use the older WLC_SET_SSID IOCTL
SetSsidFallback(result) == result = "WHD_WLAN_UNSUPPORTED"

\* results of the associate step: early = TRUE is a return taken by
\* CHECK_IOCTL_BUFFER or CHECK_RETURN inside the step, past the cleanup;
\* join_iovar is what the "join" IOVAR returned ("-": not sent) and set_ssid
\* tells whether WLC_SET_SSID was sent
AssociateOutcomes(op, ibss) ==
    IF op = "join"
    THEN {[result |-> "WHD_SUCCESS", early |-> FALSE, join_iovar |-> "-", set_ssid |-> TRUE],
          [result |-> "WHD_IOCTL_FAIL", early |-> FALSE, join_iovar |-> "-", set_ssid |-> TRUE],
          [result |-> "WHD_BUFFER_ALLOC_FAIL", early |-> TRUE, join_iovar |-> "-",
           set_ssid |-> FALSE]}
    ELSE {[result |-> "WHD_BUFFER_ALLOC_FAIL", early |-> TRUE, join_iovar |-> "-",
           set_ssid |-> FALSE]}
         \cup (IF ibss THEN {[result |-> "WHD_IOCTL_FAIL", early |-> TRUE, join_iovar |-> "-",
                              set_ssid |-> FALSE]}
               ELSE {})
         \cup {[result |-> r, early |-> FALSE, join_iovar |-> r, set_ssid |-> FALSE] :
                  r \in {x \in JoinIovarResults : ~SetSsidFallback(x)}}
         \cup {[result |-> "WHD_BUFFER_ALLOC_FAIL", early |-> TRUE, join_iovar |-> r,
                 set_ssid |-> FALSE] : r \in {x \in JoinIovarResults : SetSsidFallback(x)}}
         \cup {[result |-> q, early |-> FALSE, join_iovar |-> r, set_ssid |-> TRUE] :
                  r \in {x \in JoinIovarResults : SetSsidFallback(x)},
                  q \in {"WHD_SUCCESS", "WHD_IOCTL_FAIL"}}

\* join: WLC_SET_SSID.  join_specific: set_chanspec for ad-hoc, the "join"
\* IOVAR, and WLC_SET_SSID when the IOVAR returned WHD_WLAN_UNSUPPORTED; a
\* command that succeeded is followed by whd_wifi_join_wait_for_complete, which
\* begins with cy_rtos_get_time(&start_time)
associate(t) ==
    /\ pc[t] = "associate"
    /\ \E o \in AssociateOutcomes(loc[t].op, loc[t].ibss) :
        IF o.early
        THEN /\ Return(t, o.result, "associate_early",
                       [hist EXCEPT ![t].join_iovar = o.join_iovar,
                                    ![t].set_ssid = o.set_ssid])
        ELSE IF o.result = "WHD_SUCCESS"
        THEN /\ pc' = [pc EXCEPT ![t] = "wait_get"]
             /\ loc' = [loc EXCEPT ![t].result = o.result, ![t].start_time = clock]
             /\ hist' = [hist EXCEPT ![t].ioctl = TRUE, ![t].join_iovar = o.join_iovar,
                                     ![t].set_ssid = o.set_ssid]
             /\ UNCHANGED ret
        ELSE /\ pc' = [pc EXCEPT ![t] = "deinit_get"]
             /\ loc' = [loc EXCEPT ![t].result = o.result]
             /\ hist' = [hist EXCEPT ![t].stage = "associate", ![t].ioctl = TRUE,
                                     ![t].join_iovar = o.join_iovar,
                                     ![t].set_ssid = o.set_ssid]
             /\ UNCHANGED ret
    /\ UNCHANGED <<dhcp, worker_info, synch, wlan, bus, scan_log, scan, auth_entry, clock, chip_id, role, whd_join_status, keep_wlan_awake, active_join_mutex,
                   active_join_semaphore, join_sema, join_entry, worker, script,
                   ncalls, nevents>>


\* ------------------------------------------------------------------------
\* whd_wifi_join_wait_for_complete
\* ------------------------------------------------------------------------
\* results of cy_rtos_get_semaphore(semaphore, DEFAULT_JOIN_ATTEMPT_TIMEOUT / 10):
\* a signalled semaphore is taken at once, an unsignalled one times out; on a
\* semaphore that whd_wifi_leave has destroyed the call returns an error
SemaGetOutcomes(sm) ==
    IF ~sm.alive THEN {"error"}
    ELSE IF sm.count = 1 THEN {"taken"}
    ELSE {"timeout"}

join_wait_get(t) ==
    /\ pc[t] = "wait_get"
    /\ \E o \in SemaGetOutcomes(join_sema[t]) :
        /\ join_sema' = IF o = "taken"
                         THEN [join_sema EXCEPT ![t].count = 0, ![t].sig = NoSig]
                         ELSE join_sema
        /\ loc' = [loc EXCEPT ![t].woken = IF o = "taken" THEN join_sema[t].sig ELSE NoSig]
    /\ pc' = [pc EXCEPT ![t] = "wait_check"]
    /\ UNCHANGED <<dhcp, worker_info, synch, wlan, bus, scan_log, scan, auth_entry, clock, chip_id, role, whd_join_status, keep_wlan_awake, active_join_mutex,
                   active_join_semaphore, join_entry, ret, worker, hist, script, ncalls, nevents>>

\* result = whd_wifi_is_ready_to_transceive(ifp); leave the loop on success or
\* when done, i.e. (current_time - start_time) >= DEFAULT_JOIN_ATTEMPT_TIMEOUT.
\* The clock is an input: done is either value.  A result other than success
\* goes on to whd_wifi_leave
\* the join events of a fixed script have all been handled
ScriptDone == ~script.free /\ script.todo = <<>>

\* the wait as it would be if a wait that ended without success went
\* straight back to the caller
AfterWaitNoLeave(result, done, op, chip) ==
    IF result = "WHD_SUCCESS"
    THEN IF op = "join_specific" /\ chip \in {17267, 55560}
         THEN "mpdu_per_ampdu" ELSE "deinit_get"
    ELSE IF done THEN "deinit_get"
    ELSE "wait_get"

\* where the call goes after the status check of the wait loop: round the loop
\* again, on to whd_wifi_leave when the wait ended without success, or back
\* to the caller, which sets MPDU-per-AMPDU on two chips and then cleans up
AfterWait(result, done, op, chip) ==
    IF result = "WHD_SUCCESS"
    THEN IF op = "join_specific" /\ chip \in {17267, 55560}
         THEN "mpdu_per_ampdu" ELSE "deinit_get"
    ELSE IF done THEN "leave_deregister"
    ELSE "wait_get"

join_wait_check(t) ==
    /\ pc[t] = "wait_check"
    /\ LET result == whd_wifi_is_ready_to_transceive(role, whd_join_status) IN
        /\ loc' = [loc EXCEPT ![t].result = result, ![t].woken = NoSig]
        /\ \E done \in BOOLEAN :
            /\ pc' = [pc EXCEPT ![t] = AfterWait(result, done, loc[t].op, chip_id)]
            /\ hist' = IF result = "WHD_SUCCESS"
                       THEN [hist EXCEPT ![t].script_done = ScriptDone, ![t].ev1 = Len(script.done)]
                       ELSE IF done
                       THEN [hist EXCEPT ![t].stage = "wait", ![t].script_done = ScriptDone,
                                         ![t].ev1 = Len(script.done)]
                       ELSE hist
    /\ UNCHANGED <<dhcp, worker_info, synch, wlan, bus, scan_log, scan, auth_entry, clock, chip_id, role, whd_join_status, keep_wlan_awake, active_join_mutex,
                   active_join_semaphore, join_sema, join_entry, ret, worker,
                   script, ncalls, nevents>>

\* ------------------------------------------------------------------------
\* whd_wifi_join_wait_for_complete with the clock followed
\* ------------------------------------------------------------------------
\* uint32_t tick counts are held as their two's-complement 32-bit reading
MaxInt32 == 2147483647
MinInt32 == -MaxInt32 - 1

\* the tick count d milliseconds after c, modulo 2^32
ClockAdd(c, d) == IF c > MaxInt32 - d THEN MinInt32 + (d - (MaxInt32 - c) - 1) ELSE c + d

\* (current_time - start_time) in uint32_t arithmetic
Elapsed(current_time, start_time) ==
    IF current_time >= start_time THEN current_time - start_time
    ELSE (MaxInt32 - start_time) + 1 + (current_time - MinInt32)

\* the loop test as it would be with > in place of >=
WaitDoneLate(current_time, start_time) ==
    Elapsed(current_time, start_time) > DEFAULT_JOIN_ATTEMPT_TIMEOUT

\* done = (current_time - start_time) >= DEFAULT_JOIN_ATTEMPT_TIMEOUT
WaitDone(current_time, start_time) ==
    Elapsed(current_time, start_time) >= DEFAULT_JOIN_ATTEMPT_TIMEOUT

\* how long a thread that has blocked for b ms sleeps before it is looked at
\* again: up to the last tick before the semaphore timeout, or up to the
\* timeout (a signal wakes it at once, at the last tick, or not at all)
BlockSteps(b) == IF b = 0 THEN {SemaTimeout - 1, SemaTimeout} ELSE {SemaTimeout - b}

\* cy_rtos_get_semaphore(semaphore, DEFAULT_JOIN_ATTEMPT_TIMEOUT / 10): the
\* call returns when the semaphore is signalled (or destroyed) or when it has
\* blocked for the timeout; until then the thread sleeps and the clock runs
join_wait_get_timed(t) ==
    /\ pc[t] = "wait_get"
    /\ IF SemaGetOutcomes(join_sema[t]) # {"timeout"} \/ loc[t].blocked = SemaTimeout
       THEN /\ join_sema' = IF SemaGetOutcomes(join_sema[t]) = {"taken"}
                             THEN [join_sema EXCEPT ![t].count = 0, ![t].sig = NoSig]
                             ELSE join_sema
            /\ pc' = [pc EXCEPT ![t] = "wait_check"]
            /\ loc' = [loc EXCEPT ![t].blocked = 0,
                                  ![t].woken = IF SemaGetOutcomes(join_sema[t]) = {"taken"}
                                               THEN join_sema[t].sig ELSE NoSig]
            /\ UNCHANGED <<dhcp, worker_info, synch, wlan, bus, scan_log, scan, auth_entry, clock, hist>>
       ELSE /\ \E d \in BlockSteps(loc[t].blocked) :
                /\ clock' = ClockAdd(clock, d)
                /\ loc' = [loc EXCEPT ![t].blocked = @ + d]
                /\ hist' = [hist EXCEPT ![t].waited = @ + d]
            /\ UNCHANGED <<dhcp, worker_info, synch, wlan, bus, scan_log, scan, auth_entry, pc, join_sema>>
    /\ UNCHANGED <<dhcp, worker_info, synch, wlan, bus, scan_log, scan, auth_entry, chip_id, role, whd_join_status, keep_wlan_awake, active_join_mutex,
                   active_join_semaphore, join_entry, ret, worker, script, ncalls, nevents>>

\* result = whd_wifi_is_ready_to_transceive(ifp); cy_rtos_get_time(&current_time);
\* done computed from the clock
join_wait_check_timed(t) ==
    /\ pc[t] = "wait_check"
    /\ LET result == whd_wifi_is_ready_to_transceive(role, whd_join_status)
           done == WaitDone(clock, loc[t].start_time)
       IN
        /\ loc' = [loc EXCEPT ![t].result = result, ![t].woken = NoSig]
        /\ pc' = [pc EXCEPT ![t] = AfterWait(result, done, loc[t].op, chip_id)]
        /\ hist' = IF result = "WHD_SUCCESS"
                   THEN [hist EXCEPT ![t].script_done = ScriptDone, ![t].ev1 = Len(script.done)]
                   ELSE IF done
                   THEN [hist EXCEPT ![t].stage = "wait", ![t].script_done = ScriptDone,
                                         ![t].ev1 = Len(script.done)]
                   ELSE hist
    /\ UNCHANGED <<dhcp, worker_info, synch, wlan, bus, scan_log, scan, auth_entry, clock, chip_id, role, whd_join_status, keep_wlan_awake, active_join_mutex,
                   active_join_semaphore, join_sema, join_entry, ret, worker,
                   script, ncalls, nevents>>

\* whd_wifi_join_specific on 0x4373 / 55560 after a successful wait:
\* CHECK_RETURN(whd_wifi_set_iovar_value(ifp, IOVAR_STR_MPDU_PER_AMPDU, 16))
join_specific_mpdu_per_ampdu(t) ==
    /\ pc[t] = "mpdu_per_ampdu"
    /\ \E ok \in BOOLEAN :
        IF ok
        THEN /\ pc' = [pc EXCEPT ![t] = "deinit_get"]
             /\ UNCHANGED <<dhcp, worker_info, synch, wlan, bus, scan_log, scan, auth_entry, loc, ret, hist>>
        ELSE Return(t, "WHD_IOCTL_FAIL", "mpdu_per_ampdu", hist)
    /\ UNCHANGED <<dhcp, worker_info, synch, wlan, bus, scan_log, scan, auth_entry, clock, chip_id, role, whd_join_status, keep_wlan_awake, active_join_mutex,
                   active_join_semaphore, join_sema, join_entry, worker, script,
                   ncalls, nevents>>

\* ------------------------------------------------------------------------
\* whd_wifi_leave, called by the application or by wait-for-complete
\* ------------------------------------------------------------------------
whd_wifi_leave(t) ==
    /\ Idle(t)
    /\ ncalls' = ncalls + 1
    /\ pc' = [pc EXCEPT ![t] = "leave_deregister"]
    /\ loc' = [loc EXCEPT ![t] = [NoLoc EXCEPT !.op = "leave"]]
    /\ hist' = BeginHist(t, "leave", DeregHist(t, "leave"))
    /\ ret' = [ret EXCEPT ![t] = "-"]
    /\ UNCHANGED <<dhcp, worker_info, synch, wlan, bus, scan_log, scan, auth_entry, clock, chip_id, role, whd_join_status, keep_wlan_awake, active_join_mutex,
                   active_join_semaphore, join_sema, join_entry, worker, script, nevents>>

\* "if (ifp->event_reg_list[..] != WHD_EVENT_NOT_REGISTERED)": the calls of
\* whd_wifi_deregister_event_handler made for a category's entry
Deregistrations(entry) == IF entry.registered THEN 1 ELSE 0

\* ... and the entry afterwards: WHD_EVENT_NOT_REGISTERED
Deregistered(entry) ==
    IF entry.registered THEN [entry EXCEPT !.registered = FALSE, !.user_data = NULL]
    ELSE entry

\* deregister the join handler, send WLC_DISASSOC (result only logged), and on
\* the chips listed set bsscfg:sup_wpa = 0, whose buffer allocation may fail
leave_deregister(t) ==
    /\ pc[t] = "leave_deregister"
    /\ join_entry' = Deregistered(join_entry)
    /\ \E buffer_ok \in (IF chip_id \in {43022, 43907, 43909, 54907, 43012}
                         THEN BOOLEAN ELSE {TRUE}) :
        LET h == [hist EXCEPT ![t].leave = TRUE, ![t].ioctl = TRUE,
                              ![t].dereg = @ + Deregistrations(join_entry)]
        IN  IF buffer_ok
            THEN /\ pc' = [pc EXCEPT ![t] = "leave_clear"]
                 /\ hist' = h
                 /\ UNCHANGED <<dhcp, worker_info, synch, wlan, bus, scan_log, scan, loc, ret>>
            ELSE Return(t, "WHD_BUFFER_ALLOC_FAIL", "leave", h)
    /\ UNCHANGED <<dhcp, worker_info, synch, wlan, bus, scan_log, scan, auth_entry, clock, chip_id, role, whd_join_status, keep_wlan_awake,
                   active_join_mutex, active_join_semaphore, join_sema, worker, script,
                   ncalls, nevents>>

\* "whd_driver->internal_info.whd_join_status[bss_index] = 0"
StatusAfterLeave(js) == 0

\* clear the join status, role = WHD_INVALID_ROLE, destroy the active-join
\* mutex and the active-join semaphore; a leave made by wait-for-complete
\* returns the wait's result, which the caller's CHECK_RETURN returns at once
leave_clear(t) ==
    /\ pc[t] = "leave_clear"
    /\ whd_join_status' = StatusAfterLeave(whd_join_status)
    /\ role' = "WHD_INVALID_ROLE"
    /\ active_join_mutex' = NoMutex
    /\ join_sema' = IF active_join_semaphore # NULL
                    THEN [join_sema EXCEPT ![active_join_semaphore] = DeadSema]
                    ELSE join_sema
    /\ active_join_semaphore' = NULL
    /\ IF loc[t].op = "leave"
       THEN Return(t, "WHD_SUCCESS", "leave", hist)
       ELSE Return(t, loc[t].result, "wait", hist)
    /\ UNCHANGED <<dhcp, worker_info, synch, wlan, bus, scan_log, scan, auth_entry, clock, chip_id, keep_wlan_awake, join_entry, worker, script, ncalls, nevents>>

\* ------------------------------------------------------------------------
\* whd_wifi_external_auth_request and whd_wifi_stop_external_auth_request
\* ------------------------------------------------------------------------
AuthCallbacks == {"auth_cb1", "auth_cb2"}

\* whd_management_set_event_handler fails, or hands out no entry, or registers
RegisterResults == {"WHD_OUT_OF_EVENT_HANDLER_SPACE", "WHD_UNFINISHED", "WHD_SUCCESS"}

\* deregister an auth handler that is still registered, register
\* whd_wifi_auth_events_handler and keep the callback
whd_wifi_external_auth_request(t, callback) ==
    /\ Idle(t)
    /\ ncalls' = ncalls + 1
    /\ \E result \in RegisterResults :
        /\ auth_entry' = IF result = "WHD_SUCCESS"
                          THEN [registered |-> TRUE, user_data |-> t, callback |-> callback]
                          ELSE Deregistered(auth_entry)
        /\ Return(t, result, "-",
                  BeginHist(t, "external_auth_request",
                            [NoHist EXCEPT !.dereg = Deregistrations(auth_entry)]))
    /\ UNCHANGED <<dhcp, worker_info, synch, wlan, bus, scan_log, scan, clock, chip_id, role, whd_join_status, keep_wlan_awake, active_join_mutex,
                   active_join_semaphore, join_sema, join_entry, worker, script, nevents>>

\* deregister an auth handler that is still registered and clear
\* auth_result_callback
whd_wifi_stop_external_auth_request(t) ==
    /\ Idle(t)
    /\ ncalls' = ncalls + 1
    /\ auth_entry' = [Deregistered(auth_entry) EXCEPT !.callback = NULL]
    /\ Return(t, "WHD_SUCCESS", "-",
              BeginHist(t, "stop_external_auth_request",
                        [DeregHist(t, "stop_external_auth_request")
                            EXCEPT !.dereg = Deregistrations(auth_entry)]))
    /\ UNCHANGED <<dhcp, worker_info, synch, wlan, bus, scan_log, scan, clock, chip_id, role, whd_join_status, keep_wlan_awake, active_join_mutex,
                   active_join_semaphore, join_sema, join_entry, worker, script, nevents>>

\* ------------------------------------------------------------------------
\* whd_wifi_active_join_deinit and the return of the join call
\* ------------------------------------------------------------------------
active_join_deinit_get(t) ==
    /\ pc[t] = "deinit_get"
    /\ \E o \in MutexGetOutcomes(active_join_mutex) :
        active_join_mutex' = MutexGotBy(active_join_mutex, o, t)
    /\ pc' = [pc EXCEPT ![t] = "deinit"]
    /\ UNCHANGED <<dhcp, worker_info, synch, wlan, bus, scan_log, scan, auth_entry, clock, chip_id, role, whd_join_status, keep_wlan_awake, active_join_semaphore,
                   join_sema, join_entry, loc, ret, worker, hist, script, ncalls,
                   nevents>>

\* the cleanup as it would be if it left the role alone
RoleAfterDeinitKept(r, result) == r

\* "if (WHD_SUCCESS != result) ifp->role = WHD_INVALID_ROLE"
RoleAfterDeinit(r, result) == IF result # "WHD_SUCCESS" THEN "WHD_INVALID_ROLE" ELSE r

active_join_deinit(t) ==
    /\ pc[t] = "deinit"
    /\ active_join_semaphore' = NULL
    /\ join_sema' = [join_sema EXCEPT ![t] = DeadSema]
    /\ role' = RoleAfterDeinit(role, loc[t].result)
    /\ active_join_mutex' = MutexReleased(active_join_mutex)
    /\ keep_wlan_awake' = keep_wlan_awake - 1
    /\ Return(t, loc[t].result, IF hist[t].stage = "-" THEN "complete" ELSE hist[t].stage,
              [hist EXCEPT ![t].cleanup = TRUE, ![t].net_wake = @ - 1])
    /\ UNCHANGED <<dhcp, worker_info, synch, wlan, bus, scan_log, scan, auth_entry, clock, chip_id, whd_join_status, join_entry, worker, script, ncalls,
                   nevents>>

\* ------------------------------------------------------------------------
\* whd_wifi_join_events_handler on the driver worker thread
\* ------------------------------------------------------------------------
\* the handler as it would be if it went on to signal before it had written
\* the join status
join_events_handler_write_late(e) ==
    /\ worker.pc = "idle"
    /\ join_entry.registered
    /\ IF script.free THEN nevents < script.max
       ELSE script.todo # <<>> /\ e = Head(script.todo)
    /\ nevents' = nevents + 1
    /\ script' = IF script.free THEN script
                 ELSE [script EXCEPT !.todo = Tail(@), !.done = Append(@, e)]
    /\ LET join_attempt_complete ==
               \/ HandlerComplete(whd_join_status, e)
               \/ whd_wifi_is_ready_to_transceive(role, HandlerStatus(whd_join_status, e))
                      = "WHD_SUCCESS"
       IN /\ worker' = IF join_attempt_complete /\ join_entry.user_data # NULL
                       THEN [pc |-> "get", semaphore |-> join_entry.user_data,
                             sig |-> [ev |-> nevents',
                                      js |-> HandlerStatus(whd_join_status, e)]]
                       ELSE worker
          /\ whd_join_status' = IF join_attempt_complete /\ join_entry.user_data # NULL
                                THEN whd_join_status
                                ELSE HandlerStatus(whd_join_status, e)
    /\ join_sema' = [t \in Threads |-> [join_sema[t] EXCEPT !.sig = NoSig]]
    /\ loc' = [t \in Threads |-> [loc[t] EXCEPT !.woken = NoSig]]
    /\ UNCHANGED <<dhcp, worker_info, synch, wlan, bus, scan_log, scan, auth_entry, clock, chip_id, role, keep_wlan_awake, active_join_mutex, active_join_semaphore,
                   join_entry, pc, ret, hist, ncalls>>

\* the switch on the event type and the whd_wifi_is_ready_to_transceive test;
\* semaphore is the handler's user data at the time of the call; a handler
\* that has nothing to signal returns here
join_events_handler(e) ==
    /\ worker.pc = "idle"
    /\ join_entry.registered
    /\ IF script.free THEN nevents < script.max
       ELSE script.todo # <<>> /\ e = Head(script.todo)
    /\ nevents' = nevents + 1
    /\ script' = IF script.free THEN script
                 ELSE [script EXCEPT !.todo = Tail(@), !.done = Append(@, e)]
    /\ whd_join_status' = HandlerStatus(whd_join_status, e)
    /\ LET join_attempt_complete ==
               \/ HandlerComplete(whd_join_status, e)
               \/ whd_wifi_is_ready_to_transceive(role, whd_join_status') = "WHD_SUCCESS"
       IN worker' = IF join_attempt_complete /\ join_entry.user_data # NULL
                    THEN [pc |-> "get", semaphore |-> join_entry.user_data,
                          sig |-> [ev |-> nevents', js |-> HandlerStatus(whd_join_status, e)]]
                    ELSE worker
    /\ join_sema' = [t \in Threads |-> [join_sema[t] EXCEPT !.sig = NoSig]]
    /\ loc' = [t \in Threads |-> [loc[t] EXCEPT !.woken = NoSig]]
    /\ UNCHANGED <<dhcp, worker_info, synch, wlan, bus, scan_log, scan, auth_entry, clock, chip_id, role, keep_wlan_awake, active_join_mutex, active_join_semaphore,
                   join_entry, pc, ret, hist, ncalls>>

\* cy_rtos_get_semaphore(&active_join_mutex, CY_RTOS_NEVER_TIMEOUT); an error
\* on a destroyed mutex is only logged
join_events_handler_get(self) ==
    /\ worker.pc = "get"
    /\ \E o \in MutexGetOutcomes(active_join_mutex) :
        active_join_mutex' = MutexGotBy(active_join_mutex, o, self)
    /\ worker' = [worker EXCEPT !.pc = "signal"]
    /\ UNCHANGED <<dhcp, worker_info, synch, wlan, bus, scan_log, scan, auth_entry, clock, chip_id, role, whd_join_status, keep_wlan_awake, active_join_semaphore,
                   join_sema, join_entry, pc, loc, ret, hist, script, ncalls,
                   nevents>>

\* signal the active-join semaphore if there is one, release the mutex and
\* return NULL, which the dispatcher stores as the entry's new user data
join_events_handler_signal(self) ==
    /\ worker.pc = "signal"
    /\ join_sema' = IF active_join_semaphore # NULL
                    THEN [join_sema EXCEPT ![active_join_semaphore] =
                                                 Signalled(SemaSet(@), worker.sig)]
                    ELSE join_sema
    /\ active_join_mutex' = MutexReleased(active_join_mutex)
    /\ join_entry' = IF join_entry.registered THEN [join_entry EXCEPT !.user_data = NULL]
                     ELSE join_entry
    /\ worker' = IdleWorker
    /\ UNCHANGED <<dhcp, worker_info, synch, wlan, bus, scan_log, scan, auth_entry, clock, chip_id, role, whd_join_status, keep_wlan_awake, active_join_semaphore,
                   pc, loc, ret, hist, script, ncalls, nevents>>

\* ------------------------------------------------------------------------
\* Specification
\* ------------------------------------------------------------------------
\* the API calls that threads T make, at most n in all
Calls(T, n) ==
    \/ \E t \in T, ssid \in SsidArgs, a \in AuthTypes, k \in KeyLengths :
          ncalls < n /\ whd_wifi_join(t, ssid, a, k)
    \/ \E t \in T, ap \in ApArgs, a \in AuthTypes, k \in KeyLengths :
          ncalls < n /\ whd_wifi_join_specific(t, ap, a, k)
    \/ \E t \in T : ncalls < n /\ whd_wifi_leave(t)

\* the steps inside the calls of the application threads
JoinSteps ==
    \/ \E t \in Threads : active_join_init_mutex(t)
    \/ \E t \in Threads : active_join_init_get(t)
    \/ \E t \in Threads : active_join_init_set(t)
    \/ \E t \in Threads : prepare_join_check(t)
    \/ \E t \in Threads : prepare_join_config(t)
    \/ \E t \in Threads : prepare_join_register(t)
    \/ \E t \in Threads : associate(t)
    \/ \E t \in Threads : join_wait_get(t)
    \/ \E t \in Threads : join_wait_check(t)
    \/ \E t \in Threads : leave_deregister(t)
    \/ \E t \in Threads : leave_clear(t)
    \/ \E t \in Threads : active_join_deinit_get(t)
    \/ \E t \in Threads : active_join_deinit(t)

\* the driver worker thread
Worker ==
    \/ \E e \in JoinEvents : join_events_handler(e)
    \/ join_events_handler_get("worker")
    \/ join_events_handler_signal("worker")

\* one application thread and the worker thread, any join event at any time
Next ==
    \/ Calls({"t1"}, MaxCalls)
    \/ JoinSteps
    \/ \E t \in Threads : join_specific_mpdu_per_ampdu(t)
    \/ Worker

Spec == Init /\ [][Next]_vars

\* two application threads that each call whd_wifi_join with valid arguments
NextConc ==
    \/ \E t \in Threads, a \in {"WHD_SECURITY_OPEN", "WHD_SECURITY_WPA2_AES_PSK"} :
          ncalls < MaxConcCalls /\ whd_wifi_join(t, ValidSsid, a, WSEC_MIN_PSK_LEN)
    \/ JoinSteps
    \/ Worker

SpecConc == InitWith(FreeScript(MaxConcEvents)) /\ [][NextConc]_vars

\* the scenarios of the join state machine: the security of the join and the
\* join events the firmware answers it with
SetSsidOk == Ev("WLC_E_SET_SSID", "WLC_E_STATUS_SUCCESS", "-", 0)
LinkUp == Ev("WLC_E_LINK", "-", "-", WLC_EVENT_MSG_LINK)
AuthOk == Ev("WLC_E_AUTH", "WLC_E_STATUS_SUCCESS", "-", 0)
PskSup(st, re) == Ev("WLC_E_PSK_SUP", st, re, 0)

Scenarios ==
    {FixedScript("S1", "WHD_SECURITY_WPA2_AES_PSK",
                 <<SetSsidOk, LinkUp, AuthOk, PskSup("WLC_SUP_KEYED", "WLC_E_SUP_OTHER")>>),
     FixedScript("S2", "WHD_SECURITY_WPA2_AES_PSK",
                 <<SetSsidOk, LinkUp, AuthOk,
                   PskSup("WLC_SUP_KEYXCHANGE_WAIT_M3", "WLC_E_SUP_WPA_PSK_TMO")>>),
     FixedScript("S3", "WHD_SECURITY_OPEN",
                 <<Ev("WLC_E_SET_SSID", "WLC_E_STATUS_NO_NETWORKS", "-", 0)>>),
     FixedScript("S4", "WHD_SECURITY_WPA2_AES_PSK",
                 <<SetSsidOk, LinkUp, AuthOk,
                   PskSup("WLC_SUP_KEYXCHANGE_WAIT_M1", "WLC_E_SUP_WPA_PSK_TMO")>>)}

\* one whd_wifi_join of a scenario, answered by the scenario's join events
NextScen ==
    \/ ncalls < 1 /\ whd_wifi_join("t1", ValidSsid, script.auth_type, WSEC_MIN_PSK_LEN)
    \/ JoinSteps
    \/ Worker

SpecScen == (\E sc \in Scenarios : InitWith(sc)) /\ [][NextScen]_vars

\* whd_wifi_is_ready_to_transceive called by the application
is_ready_to_transceive_call(t, ap_is_up) ==
    /\ Idle(t)
    /\ ncalls' = ncalls + 1
    /\ Return(t, ReadyToTransceive(role, ap_is_up, whd_join_status), "-",
              BeginHist(t, "is_ready", NoHist))
    /\ UNCHANGED <<dhcp, worker_info, synch, wlan, bus, scan_log, scan, auth_entry, clock, chip_id, role, whd_join_status, keep_wlan_awake, active_join_mutex,
                   active_join_semaphore, join_sema, join_entry, worker, script, nevents>>

\* the classifier on every input: an interface in any role with any
\* combination of the ten JoinStatus bits, asked once whether it is ready
InitReady ==
    /\ clock = 0
    /\ dhcp = NoDhcp
    /\ worker_info = NoWorkerInfo
    /\ synch = NoSynch
    /\ wlan = NoWlan
    /\ bus = IdleBus
    /\ scan_log = <<>>
    /\ scan = NoScan
    /\ auth_entry = NoAuth
    /\ chip_id \in ChipIds
    /\ role \in Roles
    /\ whd_join_status \in {SumSet(B) : B \in SUBSET Bits}
    /\ keep_wlan_awake = 0
    /\ active_join_mutex = NoMutex
    /\ active_join_semaphore = NULL
    /\ join_sema = [t \in Threads |-> DeadSema]
    /\ join_entry = [registered |-> FALSE, user_data |-> NULL]
    /\ pc = [t \in Threads |-> "idle"]
    /\ loc = [t \in Threads |-> NoLoc]
    /\ ret = [t \in Threads |-> "-"]
    /\ worker = IdleWorker
    /\ hist = [t \in Threads |-> NoHist]
    /\ script = FreeScript(0)
    /\ ncalls = 0
    /\ nevents = 0

NextReady == \E ap_is_up \in BOOLEAN : ncalls < 1 /\ is_ready_to_transceive_call("t1", ap_is_up)

SpecReady == InitReady /\ [][NextReady]_vars

\* one whd_wifi_join with valid arguments, with the clock followed through its
\* wait; the tick count at the start is 0, or such that the count passes
\* 2^32 or 2^31 during the wait
InitClocks == {0, 0 - DEFAULT_JOIN_ATTEMPT_TIMEOUT \div 2,
               MaxInt32 - DEFAULT_JOIN_ATTEMPT_TIMEOUT \div 2}

InitTimed == \E c \in InitClocks : InitAt(FreeScript(MaxTimedEvents), c)

\* the steps of the application thread in its join
ThreadTimed ==
    \/ active_join_init_mutex("t1")
    \/ active_join_init_get("t1")
    \/ active_join_init_set("t1")
    \/ prepare_join_check("t1")
    \/ prepare_join_config("t1")
    \/ prepare_join_register("t1")
    \/ associate("t1")
    \/ join_wait_get_timed("t1")
    \/ join_wait_check_timed("t1")
    \/ leave_deregister("t1")
    \/ leave_clear("t1")
    \/ active_join_deinit_get("t1")
    \/ active_join_deinit("t1")

NextTimed ==
    \/ \E a \in {"WHD_SECURITY_OPEN", "WHD_SECURITY_WPA2_AES_PSK"} :
          ncalls < 1 /\ whd_wifi_join("t1", ValidSsid, a, WSEC_MIN_PSK_LEN)
    \/ ThreadTimed
    \/ Worker

\* the scheduler runs the application thread, and a cy_rtos_get_semaphore
\* with a timeout returns
SpecTimed == InitTimed /\ [][NextTimed]_vars /\ WF_vars(ThreadTimed)

\* one whd_wifi_join answered by any sequence of MaxSeqLen join events that
\* set or clear the link, the authentication or the keys, or end the attempt
\* with a key exchange timeout
LinkSeqEvents ==
    {LinkUp, Ev("WLC_E_LINK", "-", "-", 0), Ev("WLC_E_DEAUTH_IND", "-", "-", 0),
     Ev("WLC_E_DISASSOC_IND", "-", "-", 0), AuthOk, PskSup("WLC_SUP_KEYED", "WLC_E_SUP_OTHER"),
     PskSup("WLC_SUP_KEYXCHANGE_WAIT_M1", "WLC_E_SUP_WPA_PSK_TMO")}

InitSeq ==
    \E evs \in [1..MaxSeqLen -> LinkSeqEvents] :
        InitWith(FixedScript("seq", "WHD_SECURITY_WPA2_AES_PSK", evs))

SpecSeq == InitSeq /\ [][NextScen]_vars

\* whd_wifi_prepare_join followed command by command: thread t1 is in
\* whd_wifi_join, has run whd_wifi_active_join_init up to the call of prepare,
\* with any security type, key length and SAE capability
PrepAuthTypes == AuthTypes \cup {"WHD_SECURITY_WPA3_WPA2_PSK"}

InitPrep ==
    /\ clock = 0
    /\ dhcp = NoDhcp
    /\ worker_info = NoWorkerInfo
    /\ synch = NoSynch
    /\ wlan = NoWlan
    /\ bus = IdleBus
    /\ scan_log = <<>>
    /\ scan = NoScan
    /\ auth_entry = NoAuth
    /\ chip_id \in ChipIds
    /\ role = "WHD_STA_ROLE"
    /\ whd_join_status \in {0, JOIN_SECURITY_COMPLETE}
    /\ keep_wlan_awake = 1
    /\ active_join_mutex = NewMutex
    /\ active_join_semaphore = "t1"
    /\ join_sema = [t \in Threads |-> IF t = "t1" THEN NewSema ELSE DeadSema]
    /\ join_entry = [registered |-> FALSE, user_data |-> NULL]
    /\ pc = [t \in Threads |-> IF t = "t1" THEN "prepare_check" ELSE "idle"]
    /\ \E op \in JoinCalls, a \in PrepAuthTypes, k \in KeyLengths, ibss, sae \in BOOLEAN :
          /\ op = "join" => ~ibss
          /\ loc = [t \in Threads |->
                      IF t = "t1"
                      THEN [NoLoc EXCEPT !.op = op, !.auth_type = a, !.ibss = ibss,
                                         !.key_length = k, !.sae = sae]
                      ELSE NoLoc]
          /\ hist = [t \in Threads |->
                       IF t = "t1"
                       THEN [NoHist EXCEPT !.op = op, !.net_wake = 1, !.sem_created = TRUE]
                       ELSE NoHist]
    /\ ret = [t \in Threads |-> "-"]
    /\ worker = IdleWorker
    /\ script = FreeScript(0)
    /\ ncalls = 1
    /\ nevents = 0

NextPrep ==
    \/ \E t \in Threads : prepare_join_check(t)
    \/ \E t \in Threads : prepare_join_command(t)
    \/ \E t \in Threads : prepare_join_register(t)
    \/ \E t \in Threads : active_join_deinit_get(t)
    \/ \E t \in Threads : active_join_deinit(t)

SpecPrep == InitPrep /\ [][NextPrep]_vars

\* thread t1 calls whd_wifi_join, whd_wifi_leave and whd_wifi_join again, one
\* after the other; the firmware sends the join events of two scenarios of
\* the same security type
JoinLeaveJoinScripts ==
    {FixedScript("JLJ", p[1].auth_type, p[1].todo \o p[2].todo) :
        p \in {q \in Scenarios \X Scenarios : q[1].auth_type = q[2].auth_type}}

InitJoinLeaveJoin == \E sc \in JoinLeaveJoinScripts : InitWith(sc)

NextJoinLeaveJoin ==
    \/ ncalls \in {0, 2}
         /\ whd_wifi_join("t1", ValidSsid, script.auth_type, WSEC_MIN_PSK_LEN)
    \/ ncalls = 1 /\ whd_wifi_leave("t1")
    \/ JoinSteps
    \/ Worker

SpecJoinLeaveJoin == InitJoinLeaveJoin /\ [][NextJoinLeaveJoin]_vars

\* ------------------------------------------------------------------------
\* The deregistering calls: one thread joins, leaves, asks for and stops
\* external authentication, MaxDeregCalls calls in all
\* ------------------------------------------------------------------------
InitDereg == \E sc \in Scenarios : InitWith(sc)

NextDereg ==
    \/ ncalls < MaxDeregCalls
          /\ whd_wifi_join("t1", ValidSsid, script.auth_type, WSEC_MIN_PSK_LEN)
    \/ ncalls < MaxDeregCalls /\ whd_wifi_leave("t1")
    \/ \E cb \in AuthCallbacks :
          ncalls < MaxDeregCalls /\ whd_wifi_external_auth_request("t1", cb)
    \/ ncalls < MaxDeregCalls /\ whd_wifi_stop_external_auth_request("t1")
    \/ JoinSteps
    \/ Worker

SpecDereg == InitDereg /\ [][NextDereg]_vars

\* ------------------------------------------------------------------------
\* whd_wifi_scan and whd_wifi_scan_events_handler.  The firmware runs one
\* escan at a time: it accepts the start of an escan only when it runs none,
\* sends escan events while it runs one, and ends it with an event of status
\* Success, Abort, NewScan or NewAssoc
\* ------------------------------------------------------------------------
ScanTerminalStatuses == {"WLC_E_STATUS_SUCCESS", "WLC_E_STATUS_NEWSCAN",
                         "WLC_E_STATUS_NEWASSOC", "WLC_E_STATUS_ABORT"}
ScanStatuses == ScanTerminalStatuses \cup {"WLC_E_STATUS_PARTIAL", "WLC_E_STATUS_TIMEOUT"}

\* an escan event: its status and, of its first wl_bss_info_t, the fields
\* that the handler tests
EscanResult(status, version, bss_count, SSID_len, ie_offset, ie_length, length, onchannel) ==
    [status |-> status, version |-> version, bss_count |-> bss_count,
     SSID_len |-> SSID_len, ie_offset |-> ie_offset, ie_length |-> ie_length,
     length |-> length, onchannel |-> onchannel]

\* a well-formed record on the channel scanned: 8 bytes of IEs after the
\* fixed part
GoodResult(status) ==
    EscanResult(status, WL_BSS_INFO_VERSION, 1, SSID_NAME_SIZE, SizeofBssInfo, 8,
                SizeofBssInfo + 8, TRUE)

EscanEvents ==
    {GoodResult(st) : st \in ScanStatuses \ {"WLC_E_STATUS_PARTIAL"}}
    \cup {EscanResult("WLC_E_STATUS_PARTIAL", v, n, sl, off, 8, l, on) :
            v \in {WL_BSS_INFO_VERSION - 1, WL_BSS_INFO_VERSION}, n \in 0..2,
            sl \in {SSID_NAME_SIZE, SSID_NAME_SIZE + 1},
            off \in {SizeofBssInfo - 1, SizeofBssInfo, SizeofBssInfo + 9},
            l \in {SizeofBssInfo + 2, SizeofBssInfo + 8}, on \in BOOLEAN}

\* the tests as they would be without the test of the IE section against
\* the length of the record
ScanDropIeUnchecked(e) ==
    IF e.version # WL_BSS_INFO_VERSION THEN "version"
    ELSE IF e.bss_count # 1 THEN "bss_count"
    ELSE IF \/ e.SSID_len > SSID_NAME_SIZE
            \/ e.ie_offset < SizeofBssInfo
            \/ e.ie_offset > SizeofBssInfo + e.ie_length THEN "length"
    ELSE IF ~e.onchannel THEN "off_channel"
    ELSE "-"

\* why the handler returns from a Partial event without calling the scan
\* callback, in the order of its tests; "-" if it calls it
ScanDrop(e) ==
    IF e.version # WL_BSS_INFO_VERSION THEN "version"
    ELSE IF e.bss_count # 1 THEN "bss_count"
    ELSE IF \/ e.SSID_len > SSID_NAME_SIZE
            \/ e.ie_offset < SizeofBssInfo
            \/ e.ie_offset > SizeofBssInfo + e.ie_length THEN "length"
    ELSE IF ~e.onchannel THEN "off_channel"
    ELSE IF e.ie_offset > e.length \/ e.ie_length > e.length - e.ie_offset THEN "ie_length"
    ELSE "-"

\* the record of an event is off the channel scanned or malformed: wrong
\* version, not one record, SSID or IE section out of bounds
OffChannelOrMalformed(e) ==
    \/ ~e.onchannel
    \/ e.version # WL_BSS_INFO_VERSION
    \/ e.bss_count # 1
    \/ e.SSID_len > SSID_NAME_SIZE
    \/ e.ie_offset < SizeofBssInfo \/ e.ie_offset > SizeofBssInfo + e.ie_length
    \/ e.ie_offset + e.ie_length > e.length

\* what the handler did with an event
Handled(e, drop, callbacks) ==
    [status |-> e.status, defect |-> OffChannelOrMalformed(e), drop |-> drop,
     callbacks |-> callbacks]

\* the scan has ended for the host: no callback, handler deregistered
ScanEnded(sc) == [sc EXCEPT !.callback = NULL, !.entry = Deregistered(sc.entry)]

\* the firmware after it has sent an event of status st
FwAfter(st) == st \notin ScanTerminalStatuses

\* whd_wifi_scan: the argument checks
whd_wifi_scan(t, scan_type_ok, bss_type_ok, callback, result_ptr) ==
    /\ Idle(t)
    /\ ncalls' = ncalls + 1
    /\ IF result_ptr = NULL \/ callback = NULL \/ ~scan_type_ok \/ ~bss_type_ok
       THEN Return(t, "WHD_BADARG", "scan_check", BeginHist(t, "scan", NoHist))
       ELSE /\ pc' = [pc EXCEPT ![t] = "scan_register"]
            /\ loc' = [loc EXCEPT ![t] = [NoLoc EXCEPT !.op = "scan", !.callback = callback,
                                                       !.result_ptr = result_ptr]]
            /\ hist' = BeginHist(t, "scan", NoHist)
            /\ ret' = [ret EXCEPT ![t] = "-"]
    /\ UNCHANGED <<dhcp, worker_info, synch, wlan, bus, scan_log, scan, auth_entry, clock, chip_id, role, whd_join_status,
                   keep_wlan_awake, active_join_mutex, active_join_semaphore, join_sema,
                   join_entry, worker, script, nevents>>

\* whd_wifi_scan returns code: to the application, or to whd_wifi_scan_synch,
\* which goes on to wait for the scan to end or, on an error, to its error
\* exit
ScanReturn(t, code, stage, h) ==
    IF loc[t].op = "scan_synch"
    THEN /\ pc' = [pc EXCEPT ![t] = IF code = "WHD_SUCCESS" THEN "synch_wait"
                                    ELSE "synch_error"]
         /\ loc' = [loc EXCEPT ![t].result = code]
         /\ hist' = [h EXCEPT ![t].stage = stage]
         /\ UNCHANGED ret
    ELSE Return(t, code, stage, h)

\* deregister a scan handler that is still registered and register
\* whd_wifi_scan_events_handler with the caller's user data
scan_register(t) ==
    /\ pc[t] = "scan_register"
    /\ \E result \in RegisterResults :
        /\ scan' = [scan EXCEPT !.entry = IF result = "WHD_SUCCESS"
                                          THEN [registered |-> TRUE, user_data |-> t]
                                          ELSE Deregistered(scan.entry)]
        /\ LET h == [hist EXCEPT ![t].dereg = @ + Deregistrations(scan.entry)]
           IN  IF result = "WHD_SUCCESS"
               THEN /\ pc' = [pc EXCEPT ![t] = "scan_send"]
                    /\ hist' = h
                    /\ UNCHANGED <<dhcp, worker_info, synch, wlan, bus, loc, ret>>
               ELSE ScanReturn(t, result, "scan_register", h)
    /\ UNCHANGED <<dhcp, worker_info, synch, wlan, bus, scan_log, auth_entry, clock, chip_id, role, whd_join_status,
                   keep_wlan_awake, active_join_mutex, active_join_semaphore, join_sema,
                   join_entry, worker, script, ncalls, nevents>>

\* get the buffer of the escan IOVAR, store the callback and the result
\* pointer, and send the IOVAR
scan_send(t) ==
    /\ pc[t] = "scan_send"
    /\ \E buffer_ok \in BOOLEAN, iovar_ok \in (IF scan.fw THEN {FALSE} ELSE BOOLEAN) :
        IF ~buffer_ok
        THEN /\ ScanReturn(t, "WHD_BUFFER_ALLOC_FAIL", "scan_send", hist)
             /\ UNCHANGED <<dhcp, worker_info, synch, wlan, bus, scan, scan_log>>
        ELSE /\ scan' = [scan EXCEPT !.callback = loc[t].callback,
                                     !.result_ptr = loc[t].result_ptr,
                                     !.fw = @ \/ iovar_ok]
             /\ scan_log' = IF iovar_ok THEN <<>> ELSE scan_log
             /\ ScanReturn(t, IF iovar_ok THEN "WHD_SUCCESS" ELSE "WHD_IOCTL_FAIL",
                           "scan_send", [hist EXCEPT ![t].ioctl = TRUE])
    /\ UNCHANGED <<dhcp, worker_info, synch, wlan, bus, auth_entry, clock, chip_id, role, whd_join_status, keep_wlan_awake,
                   active_join_mutex, active_join_semaphore, join_sema, join_entry, worker,
                   script, ncalls, nevents>>

\* the scan callbacks that whd_wifi_scan_synch registers
SynchCallbacks == {"whd_scan_count_handler", "whd_scan_result_handler"}

\* "if (scan_userdata->offset == scan_userdata->count)" the record is not kept
KeepsRecord(offset, count) == offset # count

\* whd_scan_count_handler and whd_scan_result_handler, called with status on
\* the scan_userdata sy: a status other than WHD_SCAN_INCOMPLETE sets the scan
\* semaphore; else the count handler counts, and the result handler copies
\* the record to aps[offset] and counts unless offset has reached count
SynchCallback(sy, callback, status) ==
    IF status # "WHD_SCAN_INCOMPLETE"
    THEN [sy EXCEPT !.scan_semaphore = IF @.alive THEN [@ EXCEPT !.count = 1] ELSE @]
    ELSE IF callback = "whd_scan_count_handler"
    THEN [sy EXCEPT !.offset = @ + 1, !.reported = @ + 1]
    ELSE IF KeepsRecord(sy.offset, sy.count)
    THEN [sy EXCEPT !.written = Append(@, sy.offset), !.offset = @ + 1, !.reported = @ + 1]
    ELSE [sy EXCEPT !.reported = @ + 1]

\* what a callback of whd_wifi_scan_synch can find behind its user_data: the
\* scan_userdata of the call while the call has not returned, and afterwards
\* whatever the stack holds where it was
Frames(sy, callback) ==
    IF callback \notin SynchCallbacks \/ sy.live THEN {sy}
    ELSE {[sy EXCEPT !.count = c, !.offset = o] : c, o \in 0..MaxSynchCount}

\* the scan_userdata after the scan handler has made the callbacks cbs, in
\* this order, to the scan callback registered
RECURSIVE AfterCallbacks(_, _, _)
AfterCallbacks(sy, callback, cbs) ==
    IF callback \notin SynchCallbacks \/ cbs = <<>> THEN sy
    ELSE AfterCallbacks(SynchCallback(sy, callback, Head(cbs)), callback, Tail(cbs))

\* the scan handler on the worker thread, for the escan event e
whd_wifi_scan_events_handler(e) ==
    /\ scan.fw /\ scan.entry.registered
    /\ nevents < MaxScanEvents
    /\ nevents' = nevents + 1
    /\ LET fw == [scan EXCEPT !.fw = FwAfter(e.status)]
       IN  IF scan.callback = NULL
           THEN /\ scan' = fw
                /\ scan_log' = Append(scan_log, Handled(e, "no_callback", <<>>))
           ELSE IF e.status = "WLC_E_STATUS_SUCCESS"
           THEN /\ scan' = ScanEnded(fw)
                /\ scan_log' = Append(scan_log,
                                      Handled(e, "-", <<"WHD_SCAN_COMPLETED_SUCCESSFULLY">>))
           ELSE IF e.status \in {"WLC_E_STATUS_NEWSCAN", "WLC_E_STATUS_NEWASSOC",
                                 "WLC_E_STATUS_ABORT"}
           THEN /\ scan' = ScanEnded(fw)
                /\ scan_log' = Append(scan_log, Handled(e, "-", <<"WHD_SCAN_ABORTED">>))
           ELSE IF e.status # "WLC_E_STATUS_PARTIAL"
           THEN /\ scan' = fw
                /\ scan_log' = Append(scan_log, Handled(e, "status", <<>>))
           ELSE IF ScanDrop(e) # "-"
           THEN /\ scan' = fw
                /\ scan_log' = Append(scan_log, Handled(e, ScanDrop(e), <<>>))
           ELSE \* the callback may set whd_scan_result_ptr to NULL; the two
                \* callbacks of whd_wifi_scan_synch never do
                \E result_ptr \in (IF scan.callback \in SynchCallbacks
                                   THEN {scan.result_ptr} ELSE {NULL, scan.result_ptr}) :
                    IF result_ptr = NULL
                    THEN /\ scan' = [ScanEnded(fw) EXCEPT !.result_ptr = NULL]
                         /\ scan_log' = Append(scan_log,
                                               Handled(e, "-", <<"WHD_SCAN_INCOMPLETE",
                                                                 "WHD_SCAN_ABORTED">>))
                    ELSE /\ scan' = fw
                         /\ scan_log' = Append(scan_log,
                                               Handled(e, "-", <<"WHD_SCAN_INCOMPLETE">>))
    /\ \E sy \in Frames(synch, scan.callback) :
          synch' = AfterCallbacks(sy, scan.callback, scan_log'[Len(scan_log')].callbacks)
    /\ UNCHANGED <<dhcp, worker_info, wlan, bus, auth_entry, clock, chip_id, role, whd_join_status, keep_wlan_awake,
                   active_join_mutex, active_join_semaphore, join_sema, join_entry, pc, loc,
                   ret, worker, hist, script, ncalls>>

\* an escan event that finds no scan handler registered
scan_event_unhandled(st) ==
    /\ scan.fw /\ ~scan.entry.registered
    /\ nevents < MaxScanEvents
    /\ nevents' = nevents + 1
    /\ scan' = [scan EXCEPT !.fw = FwAfter(st)]
    /\ scan_log' = Append(scan_log, Handled(GoodResult(st), "no_handler", <<>>))
    /\ UNCHANGED <<dhcp, worker_info, synch, wlan, bus, auth_entry, clock, chip_id, role, whd_join_status,
                   keep_wlan_awake, active_join_mutex, active_join_semaphore, join_sema,
                   join_entry, pc, loc, ret, worker, hist, script, ncalls>>

ScanCallbacks == {"scan_cb"}
ScanResultPtrs == {NULL, "result"}

\* whd_wifi_scan_synch up to its call of whd_wifi_scan, whose argument checks
\* pass: scan_userdata set from *count, the argument check, the semaphore,
\* the choice of the callback, the allocation of scan_result_ptr
whd_wifi_scan_synch(t, count, args_ok, sem_ok, malloc_ok) ==
    /\ Idle(t)
    /\ ncalls' = ncalls + 1
    /\ LET sy == [NoSynch EXCEPT !.count = count, !.N = count, !.out = count]
           h == BeginHist(t, "scan_synch", NoHist)
       IN  IF ~args_ok
           THEN /\ synch' = sy
                /\ Return(t, "WHD_WLAN_BADARG", "synch_check", h)
           ELSE IF ~sem_ok
           THEN /\ synch' = sy
                /\ Return(t, "error of cy_rtos_init_semaphore", "synch_semaphore", h)
           ELSE IF ~malloc_ok
           THEN /\ synch' = [sy EXCEPT !.scan_semaphore = [alive |-> TRUE, count |-> 0]]
                /\ Return(t, "WHD_MALLOC_FAILURE", "synch_malloc", h)
           ELSE /\ synch' = [sy EXCEPT !.scan_semaphore = [alive |-> TRUE, count |-> 0],
                                       !.live = TRUE, !.ptr = "allocated"]
                /\ pc' = [pc EXCEPT ![t] = "scan_register"]
                /\ loc' = [loc EXCEPT ![t] =
                              [NoLoc EXCEPT !.op = "scan_synch",
                                            !.callback = IF count = 0
                                                         THEN "whd_scan_count_handler"
                                                         ELSE "whd_scan_result_handler",
                                            !.result_ptr = "result"]]
                /\ hist' = h
                /\ ret' = [ret EXCEPT ![t] = "-"]
    /\ UNCHANGED <<dhcp, worker_info, wlan, bus, scan_log, scan, auth_entry, clock, chip_id, role, whd_join_status,
                   keep_wlan_awake, active_join_mutex, active_join_semaphore, join_sema,
                   join_entry, worker, script, nevents>>

\* whd_wifi_scan_synch after whd_wifi_scan has succeeded: it blocks on the
\* scan semaphore without a timeout, then deinitialises the semaphore, frees
\* scan_result_ptr and sets *count to the offset
synch_wait(t) ==
    /\ pc[t] = "synch_wait"
    /\ synch.scan_semaphore.count = 1
    /\ synch' = [synch EXCEPT !.scan_semaphore = [alive |-> FALSE, count |-> 0],
                              !.ptr = "freed", !.out = synch.offset, !.live = FALSE]
    /\ Return(t, "WHD_SUCCESS", "synch_wait", hist)
    /\ UNCHANGED <<dhcp, worker_info, wlan, bus, scan_log, scan, auth_entry, clock, chip_id, role, whd_join_status,
                   keep_wlan_awake, active_join_mutex, active_join_semaphore, join_sema,
                   join_entry, worker, script, ncalls, nevents>>

\* the error exit of whd_wifi_scan_synch after whd_wifi_scan has failed
synch_error(t) ==
    /\ pc[t] = "synch_error"
    /\ synch' = [synch EXCEPT !.ptr = "freed", !.live = FALSE]
    /\ Return(t, "WHD_MALLOC_FAILURE", "synch_error", hist)
    /\ UNCHANGED <<dhcp, worker_info, wlan, bus, scan_log, scan, auth_entry, clock, chip_id, role, whd_join_status,
                   keep_wlan_awake, active_join_mutex, active_join_semaphore, join_sema,
                   join_entry, worker, script, ncalls, nevents>>

InitScan == InitWith(FreeScript(0))

NextScan ==
    \/ \E ty, bss \in BOOLEAN, cb \in ScanCallbacks \cup {NULL}, ptr \in ScanResultPtrs :
          ncalls < MaxScanCalls /\ whd_wifi_scan("t1", ty, bss, cb, ptr)
    \/ scan_register("t1")
    \/ scan_send("t1")
    \/ \E e \in EscanEvents : whd_wifi_scan_events_handler(e)
    \/ \E st \in ScanStatuses : scan_event_unhandled(st)

SpecScan == InitScan /\ [][NextScan]_vars

\* the escan events of a synchronous scan: well-formed ones of every status
\* and a Partial one that the handler drops
SynchEvents ==
    {GoodResult(st) : st \in ScanStatuses}
    \cup {EscanResult("WLC_E_STATUS_PARTIAL", WL_BSS_INFO_VERSION, 1, SSID_NAME_SIZE,
                      SizeofBssInfo, 8, SizeofBssInfo + 8, FALSE)}

InitSynch == InitAt(FreeScript(0), 0)

\* one application thread that scans with whd_wifi_scan and with
\* whd_wifi_scan_synch, and the scan handler on the worker thread
NextSynch ==
    \/ ncalls < MaxSynchCalls /\ whd_wifi_scan("t1", TRUE, TRUE, "scan_cb", "result")
    \/ \E count \in 0..MaxSynchCount, args_ok, sem_ok, malloc_ok \in BOOLEAN :
          ncalls < MaxSynchCalls /\ whd_wifi_scan_synch("t1", count, args_ok, sem_ok, malloc_ok)
    \/ scan_register("t1")
    \/ scan_send("t1")
    \/ synch_wait("t1")
    \/ synch_error("t1")
    \/ \E e \in SynchEvents : whd_wifi_scan_events_handler(e)
    \/ \E st \in ScanStatuses : scan_event_unhandled(st)

SpecSynch == InitSynch /\ [][NextSynch]_vars

\* ------------------------------------------------------------------------
\* whd_ensure_wlan_bus_is_up and whd_kso_enable (whd_chip.c)
\* ------------------------------------------------------------------------
\* every variable but bus
driver == <<chip_id, role, whd_join_status, keep_wlan_awake, active_join_mutex,
            active_join_semaphore, join_sema, join_entry, pc, loc, ret, worker, hist,
            script, ncalls, nevents, clock, auth_entry, scan, scan_log, wlan, synch, worker_info, dhcp>>

\* x & m for two uint8_t
ByteAnd(x, m) == SumSet({b \in {1, 2, 4, 8, 16, 32, 64, 128} : HasBit(x, b) /\ HasBit(m, b)})

\* a chip woken by the bus and the HT clock, one in M2M power save, one that
\* needs two sequential writes of the KSO bit, and one of the others
BusChipIds == {43362, 43909, 43430, 43012}

\* values that a read of the chip-clock CSR and of the sleep CSR may give
ClockCsrValues == {0, SBSDIO_HT_AVAIL}
SleepCsrValues == {0, SBSDIO_SLPCSR_KEEP_WL_KSO,
                   SBSDIO_SLPCSR_KEEP_WL_KSO + SBSDIO_SLPCSR_WL_DEVON, 255}

\* the call returns code
BusReturn(b, code) == [b EXCEPT !.pc = "done", !.ret = code]

\* the call starts to poll for the HT clock
HtPoll(b) == [b EXCEPT !.pc = "ht_poll", !.path = "ht", !.attempts = WLAN_BUS_UP_ATTEMPTS]

\* whd_ensure_wlan_bus_is_up up to its first poll
whd_ensure_wlan_bus_is_up ==
    /\ bus.pc = "idle"
    /\ IF bus.up
       THEN bus' = BusReturn(bus, "WHD_SUCCESS")
       ELSE IF chip_id \in {43362, 4334}
       THEN \E wakeup_ok, write_ok \in BOOLEAN :
               bus' = IF ~wakeup_ok THEN BusReturn(bus, "WHD_BUS_WAKEUP_ERROR")
                      ELSE IF ~write_ok THEN BusReturn(bus, "WHD_BUS_WRITE_REGISTER_ERROR")
                      ELSE HtPoll(bus)
       ELSE IF chip_id \in {43909, 43907, 54907}
       THEN bus' = BusReturn([bus EXCEPT !.path = "m2m"], "WHD_SUCCESS")
       ELSE IF ~bus.save_restore_enable
       THEN \E write_ok \in BOOLEAN :
               bus' = IF ~write_ok THEN BusReturn(bus, "WHD_BUS_WRITE_REGISTER_ERROR")
                      ELSE HtPoll(bus)
       ELSE bus' = [bus EXCEPT !.pc = "kso_enable", !.path = "kso"]
    /\ UNCHANGED driver

\* what the call returns after its poll loop with attempts left, and whether
\* it marks the bus up
AfterHtPolls(b, attempts, fail) ==
    IF attempts = 0 THEN BusReturn(b, fail)
    ELSE BusReturn([b EXCEPT !.up = TRUE], "WHD_SUCCESS")

\* one turn of the do-while loop: read the chip-clock CSR, count the attempt
\* down, and sleep if the HT clock is not there and attempts are left
ht_avail_poll ==
    /\ bus.pc = "ht_poll"
    /\ \E read_ok \in BOOLEAN, csr \in ClockCsrValues :
        IF ~read_ok
        THEN bus' = BusReturn([bus EXCEPT !.polls = @ + 1], "WHD_BUS_READ_REGISTER_ERROR")
        ELSE LET attempts == bus.attempts - 1
                 avail == ByteAnd(csr, SBSDIO_HT_AVAIL) # 0
                 b == [bus EXCEPT !.attempts = attempts, !.polls = @ + 1,
                                  !.seen = @ \/ HasBit(csr, SBSDIO_HT_AVAIL)]
             IN  bus' = IF ~avail /\ attempts # 0
                        THEN [b EXCEPT !.waited = @ + HT_AVAIL_WAIT_MS]
                        ELSE AfterHtPolls(b, attempts,
                                          IF chip_id \in {43362, 4334}
                                          THEN "WHD_BUS_UP_FAIL" ELSE "WHD_SDIO_BUS_UP_FAIL")
    /\ UNCHANGED driver

\* whd_kso_enable(enable = WHD_TRUE) up to its first poll: two writes of
\* KEEP_WL_KSO to the sleep CSR, whose results are ignored
whd_kso_enable ==
    /\ bus.pc = "kso_enable"
    /\ bus' = [bus EXCEPT !.pc = "kso_poll", !.writes = 2, !.attempts = MAX_KSO_ATTEMPTS]
    /\ UNCHANGED driver

\* the poll as it would be if the result of the read were not looked at
KsoReadMatchesAnyResult(result_ok, read_value) ==
    /\ ByteAnd(read_value, SBSDIO_SLPCSR_KEEP_WL_KSO + SBSDIO_SLPCSR_WL_DEVON)
           = SBSDIO_SLPCSR_KEEP_WL_KSO + SBSDIO_SLPCSR_WL_DEVON
    /\ read_value # 255

\* "((read_value & bmask) == compare_value) && (result == WHD_SUCCESS) &&
\* (read_value != 0xFF)"
KsoReadMatches(result_ok, read_value) ==
    /\ ByteAnd(read_value, SBSDIO_SLPCSR_KEEP_WL_KSO + SBSDIO_SLPCSR_WL_DEVON)
           = SBSDIO_SLPCSR_KEEP_WL_KSO + SBSDIO_SLPCSR_WL_DEVON
    /\ result_ok
    /\ read_value # 255

\* a read that gave the sleep CSR with KEEP_WL_KSO and WL_DEVON set, from a
\* bus that answers
ReadBackKsoDevon(result_ok, read_value) ==
    /\ result_ok
    /\ read_value # 255
    /\ HasBit(read_value, SBSDIO_SLPCSR_KEEP_WL_KSO)
    /\ HasBit(read_value, SBSDIO_SLPCSR_WL_DEVON)

\* one turn of the while loop: read the sleep CSR; leave the loop if it
\* matches, else sleep, write KEEP_WL_KSO again and count the attempt down;
\* then the return of whd_kso_enable and of whd_ensure_wlan_bus_is_up
kso_poll ==
    /\ bus.pc = "kso_poll"
    /\ \E result_ok \in BOOLEAN, read_value \in SleepCsrValues :
        LET b == [bus EXCEPT !.polls = @ + 1,
                             !.seen = @ \/ ReadBackKsoDevon(result_ok, read_value)]
        IN  bus' = IF KsoReadMatches(result_ok, read_value)
                   THEN BusReturn([b EXCEPT !.up = TRUE], "WHD_SUCCESS")
                   ELSE IF bus.attempts - 1 = 0
                   THEN BusReturn([b EXCEPT !.attempts = 0, !.waited = @ + KSO_WAIT_MS],
                                  "WHD_SDIO_BUS_UP_FAIL")
                   ELSE [b EXCEPT !.attempts = @ - 1, !.waited = @ + KSO_WAIT_MS]
    /\ UNCHANGED driver

InitBus ==
    /\ clock = 0
    /\ dhcp = NoDhcp
    /\ worker_info = NoWorkerInfo
    /\ synch = NoSynch
    /\ wlan = NoWlan
    /\ scan_log = <<>>
    /\ scan = NoScan
    /\ auth_entry = NoAuth
    /\ chip_id \in BusChipIds
    /\ \E up, sr \in BOOLEAN : bus = [IdleBus EXCEPT !.up = up, !.save_restore_enable = sr]
    /\ role = "WHD_INVALID_ROLE"
    /\ whd_join_status = 0
    /\ keep_wlan_awake = 0
    /\ active_join_mutex = NoMutex
    /\ active_join_semaphore = NULL
    /\ join_sema = [t \in Threads |-> DeadSema]
    /\ join_entry = [registered |-> FALSE, user_data |-> NULL]
    /\ pc = [t \in Threads |-> "idle"]
    /\ loc = [t \in Threads |-> NoLoc]
    /\ hist = [t \in Threads |-> NoHist]
    /\ ret = [t \in Threads |-> "-"]
    /\ worker = IdleWorker
    /\ script = FreeScript(0)
    /\ ncalls = 0
    /\ nevents = 0

NextBus ==
    \/ whd_ensure_wlan_bus_is_up
    \/ ht_avail_poll
    \/ whd_kso_enable
    \/ kso_poll

SpecBus == InitBus /\ [][NextBus]_vars

\* the call is not held up for ever
SpecBusFair == SpecBus /\ WF_vars(NextBus)

\* ------------------------------------------------------------------------
\* whd_allow_wlan_bus_to_sleep and whd_kso_enable(WHD_FALSE) (whd_chip.c)
\* ------------------------------------------------------------------------
\* the chips whose save/restore module takes two sequential writes of the KSO
\* bit, and for which whd_kso_enable reads the sleep CSR back in both
\* directions
TwoWriteChips == {43430, 43439, 43340, 43342}

\* whd_allow_wlan_bus_to_sleep up to the call of whd_kso_enable: a bus that is
\* up is marked down before anything is written
whd_allow_wlan_bus_to_sleep ==
    /\ bus.pc = "idle"
    /\ IF ~bus.up
       THEN bus' = BusReturn([bus EXCEPT !.path = "down"], "WHD_SUCCESS")
       ELSE LET b == [bus EXCEPT !.up = FALSE]
            IN  IF chip_id \in {4334, 43362}
                THEN \E write_ok, sleep_ok \in BOOLEAN :
                        bus' = IF ~write_ok
                               THEN BusReturn([b EXCEPT !.path = "ht_off"],
                                              "WHD_BUS_WRITE_REGISTER_ERROR")
                               ELSE BusReturn([b EXCEPT !.path = "ht_off"],
                                              IF sleep_ok THEN "WHD_SUCCESS"
                                              ELSE "error of whd_bus_sleep")
                ELSE IF ~bus.save_restore_enable
                THEN \E write_ok \in BOOLEAN :
                        bus' = BusReturn([b EXCEPT !.path = "ht_off"],
                                         IF write_ok THEN "WHD_SUCCESS"
                                         ELSE "WHD_BUS_WRITE_REGISTER_ERROR")
                ELSE IF bus.bt_int_cb
                THEN bus' = BusReturn([b EXCEPT !.path = "bt"], "WHD_SUCCESS")
                ELSE bus' = [b EXCEPT !.pc = "kso_disable", !.path = "kso_off"]
    /\ UNCHANGED driver

\* whd_kso_enable(enable = WHD_FALSE) up to its first poll: write_value is 0;
\* the two-write chips write it twice and go on to the poll loop, the others
\* write it once and return at once
whd_kso_disable ==
    /\ bus.pc = "kso_disable"
    /\ bus' = IF chip_id \in TwoWriteChips
              THEN [bus EXCEPT !.pc = "kso_off_poll", !.writes = 2, !.written = @ \cup {0},
                               !.attempts = MAX_KSO_ATTEMPTS]
              ELSE BusReturn([bus EXCEPT !.writes = 1, !.written = @ \cup {0}],
                             "WHD_SUCCESS")
    /\ UNCHANGED driver

\* the poll as it would be if the result of the read were not looked at
KsoOffReadMatchesAnyResult(result_ok, read_value) ==
    /\ ByteAnd(read_value, SBSDIO_SLPCSR_KEEP_WL_KSO) = 0
    /\ read_value # 255

\* the loop condition with compare_value = 0 and bmask = KEEP_WL_KSO
KsoOffReadMatches(result_ok, read_value) ==
    /\ ByteAnd(read_value, SBSDIO_SLPCSR_KEEP_WL_KSO) = 0
    /\ result_ok
    /\ read_value # 255

\* one turn of the while loop for enable = WHD_FALSE: read the sleep CSR;
\* leave the loop if KEEP_WL_KSO reads clear, else sleep, write 0 again and
\* count the attempt down; then the return of whd_kso_enable
kso_off_poll ==
    /\ bus.pc = "kso_off_poll"
    /\ \E result_ok \in BOOLEAN, read_value \in SleepCsrValues :
        LET b == [bus EXCEPT !.polls = @ + 1,
                             !.seen = @ \/ (result_ok /\ read_value # 255
                                            /\ ~HasBit(read_value, SBSDIO_SLPCSR_KEEP_WL_KSO))]
        IN  bus' = IF KsoOffReadMatches(result_ok, read_value)
                   THEN BusReturn(b, "WHD_SUCCESS")
                   ELSE IF bus.attempts - 1 = 0
                   THEN BusReturn([b EXCEPT !.attempts = 0, !.waited = @ + KSO_WAIT_MS,
                                            !.writes = @ + 1],
                                  "WHD_SDIO_BUS_UP_FAIL")
                   ELSE [b EXCEPT !.attempts = @ - 1, !.waited = @ + KSO_WAIT_MS,
                                  !.writes = @ + 1]
    /\ UNCHANGED driver

\* any chip, the bus up or down, save/restore on or off, with or without a
\* Bluetooth interrupt callback
InitSleep ==
    /\ clock = 0
    /\ dhcp = NoDhcp
    /\ worker_info = NoWorkerInfo
    /\ synch = NoSynch
    /\ wlan = NoWlan
    /\ scan_log = <<>>
    /\ scan = NoScan
    /\ auth_entry = NoAuth
    /\ chip_id \in BusChipIds
    /\ \E up, sr, bt \in BOOLEAN :
          bus = [IdleBus EXCEPT !.up = up, !.save_restore_enable = sr, !.bt_int_cb = bt]
    /\ role = "WHD_INVALID_ROLE"
    /\ whd_join_status = 0
    /\ keep_wlan_awake = 0
    /\ active_join_mutex = NoMutex
    /\ active_join_semaphore = NULL
    /\ join_sema = [t \in Threads |-> DeadSema]
    /\ join_entry = [registered |-> FALSE, user_data |-> NULL]
    /\ pc = [t \in Threads |-> "idle"]
    /\ loc = [t \in Threads |-> NoLoc]
    /\ hist = [t \in Threads |-> NoHist]
    /\ ret = [t \in Threads |-> "-"]
    /\ worker = IdleWorker
    /\ script = FreeScript(0)
    /\ ncalls = 0
    /\ nevents = 0

NextSleep ==
    \/ whd_allow_wlan_bus_to_sleep
    \/ whd_kso_disable
    \/ kso_off_poll

SpecSleep == InitSleep /\ [][NextSleep]_vars

\* ------------------------------------------------------------------------
\* The WLAN lifecycle: whd_init, whd_wifi_on, whd_wifi_set_up,
\* whd_wifi_set_down, whd_wifi_off, whd_deinit (whd_chip.c, whd_wifi_api.c)
\* ------------------------------------------------------------------------
\* every variable but wlan
rest == <<chip_id, role, whd_join_status, keep_wlan_awake, active_join_mutex,
          active_join_semaphore, join_sema, join_entry, pc, loc, ret, worker, hist,
          script, ncalls, nevents, clock, auth_entry, scan, scan_log, bus, synch,
          worker_info, dhcp>>

\* a chip with deep sleep and one without
LifecycleChipIds == {43012, 43430}

\* a WLC command sent, and whether the firmware accepted it
Sent(cmd, ok) == [cmd |-> cmd, ok |-> ok]

\* the lifecycle call op starts in w
Called(w, op) == [w EXCEPT !.op = op, !.pre = w.state, !.cmds = <<>>, !.freed = {},
                           !.ret = "-"]

\* whd_init: arguments checked, the driver allocated and zeroed,
\* whd_internal_info_init
whd_init ==
    /\ wlan.driver = "none"
    /\ \E args_ok, malloc_ok \in BOOLEAN :
        LET w == Called(wlan, "whd_init")
        IN  wlan' = IF ~args_ok THEN [w EXCEPT !.ret = "WHD_WLAN_BADARG"]
                    ELSE IF ~malloc_ok THEN [w EXCEPT !.ret = "WHD_MALLOC_FAILURE"]
                    ELSE [w EXCEPT !.driver = "allocated", !.state = "WLAN_OFF",
                                   !.iflist = {}, !.bus_attached = FALSE,
                                   !.ret = "WHD_SUCCESS"]
    /\ UNCHANGED rest

\* the attach and detach functions of the bus layer, which set and clear
\* bus_if and bus_priv of the driver
whd_bus_attach ==
    /\ wlan.driver = "allocated" /\ ~wlan.bus_attached /\ wlan.state = "WLAN_OFF"
    /\ wlan' = [Called(wlan, "whd_bus_attach") EXCEPT !.bus_attached = TRUE,
                                                      !.ret = "WHD_SUCCESS"]
    /\ UNCHANGED rest

whd_bus_detach ==
    /\ wlan.driver = "allocated" /\ wlan.bus_attached
    /\ wlan' = [Called(wlan, "whd_bus_detach") EXCEPT !.bus_attached = FALSE,
                                                      !.ret = "WHD_SUCCESS"]
    /\ UNCHANGED rest

\* the state after whd_wifi_set_up in state st whose UP command had result ok
SetUpStateAlways(st, ok) == "WLAN_UP"

SetUpState(st, ok) == IF ok THEN "WLAN_UP" ELSE st

\* whd_wifi_set_up(ifp)
whd_wifi_set_up ==
    /\ wlan.driver = "allocated"
    /\ \E ifp \in wlan.iflist \cup {NULL}, ok \in BOOLEAN :
        LET w == Called(wlan, "whd_wifi_set_up")
        IN  wlan' = IF ifp = NULL THEN [w EXCEPT !.ret = "WHD_UNKNOWN_INTERFACE"]
                    ELSE IF wlan.state = "WLAN_UP" THEN [w EXCEPT !.ret = "WHD_SUCCESS"]
                    ELSE [w EXCEPT !.cmds = <<Sent("WLC_UP", ok)>>,
                                   !.state = SetUpState(wlan.state, ok),
                                   !.ret = IF ok THEN "WHD_SUCCESS" ELSE "error of WLC_UP"]
    /\ UNCHANGED rest

\* whd_wifi_set_down(ifp)
whd_wifi_set_down ==
    /\ wlan.driver = "allocated"
    /\ \E ifp \in wlan.iflist, ok \in BOOLEAN :
        LET w == Called(wlan, "whd_wifi_set_down")
        IN  wlan' = IF wlan.state # "WLAN_UP" THEN [w EXCEPT !.ret = "WHD_INTERFACE_NOT_UP"]
                    ELSE [w EXCEPT !.cmds = <<Sent("WLC_DOWN", ok)>>,
                                   !.state = IF ok THEN "WLAN_DOWN" ELSE @,
                                   !.ret = IF ok THEN "WHD_SUCCESS" ELSE "error of WLC_DOWN"]
    /\ UNCHANGED rest

\* whd_wifi_on(whd_driver, ifpp) with whd_management_wifi_platform_init and
\* whd_wifi_set_up in it; the allocation of the primary interface is taken to
\* succeed. before_ok and after_ok are the results of the commands that
\* configure the firmware before and after the UP command.
whd_wifi_on ==
    /\ wlan.driver = "allocated" /\ wlan.bus_attached
    /\ \E args_ok, bus_ok, proto_ok, thread_ok, before_ok, up_ok, after_ok \in BOOLEAN :
        LET w == Called(wlan, "whd_wifi_on")
            d == [w EXCEPT !.state = "WLAN_DOWN"]
            i == [d EXCEPT !.iflist = @ \cup {"wlan0"}]
            u == [i EXCEPT !.cmds = <<Sent("WLC_UP", up_ok)>>,
                           !.state = SetUpState(i.state, up_ok)]
        IN  wlan' = IF ~args_ok THEN [w EXCEPT !.ret = "WHD_WLAN_BADARG"]
                    ELSE IF wlan.state = "WLAN_UP" THEN [w EXCEPT !.ret = "WHD_SUCCESS"]
                    ELSE IF ~bus_ok THEN [w EXCEPT !.ret = "error of whd_bus_init"]
                    ELSE IF ~proto_ok THEN [w EXCEPT !.ret = "error of whd_proto_attach"]
                    ELSE IF ~thread_ok THEN [d EXCEPT !.ret = "error of whd_thread_init"]
                    ELSE IF ~before_ok THEN [i EXCEPT !.ret = "error of an iovar"]
                    ELSE IF ~up_ok THEN [u EXCEPT !.ret = "error of WLC_UP"]
                    ELSE IF ~after_ok THEN [u EXCEPT !.ret = "error of an iovar"]
                    ELSE [u EXCEPT !.ret = "WHD_SUCCESS"]
    /\ UNCHANGED rest

\* whd_wifi_off(ifp)
whd_wifi_off ==
    /\ wlan.driver = "allocated"
    /\ \E ifp \in wlan.iflist \cup {NULL}, down_ok, deinit_ok \in BOOLEAN :
        LET w == Called(wlan, "whd_wifi_off")
            c == [w EXCEPT !.cmds = <<Sent("WLC_DOWN", down_ok)>>]
        IN  wlan' = IF ifp = NULL THEN [w EXCEPT !.ret = "WHD_UNKNOWN_INTERFACE"]
                    ELSE IF wlan.state = "WLAN_OFF" THEN [w EXCEPT !.ret = "WHD_SUCCESS"]
                    ELSE IF ~down_ok THEN [c EXCEPT !.ret = "error of WLC_DOWN"]
                    ELSE IF ~deinit_ok
                    THEN [c EXCEPT !.state = "WLAN_DOWN", !.ret = "error of whd_bus_deinit"]
                    ELSE [c EXCEPT !.state = "WLAN_OFF", !.ret = "WHD_SUCCESS"]
    /\ UNCHANGED rest

\* whether whd_deinit refuses, as it would be if only the state were looked at
DeinitRefusedByState(state, bus_attached) == state # "WLAN_OFF"

\* whd_deinit refuses a driver that is not off or whose bus is attached
DeinitRefused(state, bus_attached) == state # "WLAN_OFF" \/ bus_attached

\* whd_deinit(ifp): every interface of iflist and the driver are freed
whd_deinit ==
    /\ wlan.driver = "allocated"
    /\ \E ifp \in wlan.iflist \cup {NULL} :
        LET w == Called(wlan, "whd_deinit")
        IN  wlan' = IF ifp = NULL THEN [w EXCEPT !.ret = "WHD_UNKNOWN_INTERFACE"]
                    ELSE IF DeinitRefused(wlan.state, wlan.bus_attached)
                    THEN [w EXCEPT !.ret = "WHD_WLAN_NOTDOWN"]
                    ELSE [w EXCEPT !.freed = wlan.iflist \cup {"driver"}, !.iflist = {},
                                   !.driver = "freed", !.ret = "WHD_SUCCESS"]
    /\ UNCHANGED rest

\* whd_wlan_bus_complete_ds_wake of a build with ULP support, up to its first
\* read of the bus: on 43012 and 43022 the state is set to WLAN_OFF
whd_wlan_bus_complete_ds_wake ==
    /\ wlan.driver = "allocated" /\ wlan.bus_attached /\ wlan.ulp
    /\ wlan' = IF chip_id \in {43012, 43022}
               THEN [Called(wlan, "whd_wlan_bus_complete_ds_wake") EXCEPT
                         !.state = "WLAN_OFF"]
               ELSE Called(wlan, "whd_wlan_bus_complete_ds_wake")
    /\ UNCHANGED rest

InitLifecycle ==
    /\ clock = 0
    /\ dhcp = NoDhcp
    /\ worker_info = NoWorkerInfo
    /\ synch = NoSynch
    /\ \E ulp \in BOOLEAN : wlan = [NoWlan EXCEPT !.ulp = ulp]
    /\ bus = IdleBus
    /\ scan_log = <<>>
    /\ scan = NoScan
    /\ auth_entry = NoAuth
    /\ chip_id \in LifecycleChipIds
    /\ role = "WHD_INVALID_ROLE"
    /\ whd_join_status = 0
    /\ keep_wlan_awake = 0
    /\ active_join_mutex = NoMutex
    /\ active_join_semaphore = NULL
    /\ join_sema = [t \in Threads |-> DeadSema]
    /\ join_entry = [registered |-> FALSE, user_data |-> NULL]
    /\ pc = [t \in Threads |-> "idle"]
    /\ loc = [t \in Threads |-> NoLoc]
    /\ hist = [t \in Threads |-> NoHist]
    /\ ret = [t \in Threads |-> "-"]
    /\ worker = IdleWorker
    /\ script = FreeScript(0)
    /\ ncalls = 0
    /\ nevents = 0

NextLifecycle ==
    \/ whd_init
    \/ whd_bus_attach
    \/ whd_bus_detach
    \/ whd_wifi_on
    \/ whd_wifi_set_up
    \/ whd_wifi_set_down
    \/ whd_wifi_off
    \/ whd_deinit
    \/ whd_wlan_bus_complete_ds_wake

SpecLifecycle == InitLifecycle /\ [][NextLifecycle]_vars

\* ------------------------------------------------------------------------
\* Properties of the join path
\* ------------------------------------------------------------------------
JoinOps == {"join", "join_specific"}

\* thread t has returned from a whd_wifi_join / whd_wifi_join_specific call
Returned(t) == pc[t] = "done" /\ hist[t].op \in JoinOps

\* ... and the call failed
ReturnedFailure(t) == Returned(t) /\ ret[t] # "WHD_SUCCESS"

\* C1: when a whd_wifi_join / whd_wifi_join_specific call returns, on success
\* and on every failure return, the wake-lock count is what it was when the
\* call was made: the call's net change of keep_wlan_awake is zero.
C1_WakeLockRestored == \A t \in Threads : Returned(t) => hist[t].net_wake = 0

\* C2: each time the join handler signals the join semaphore, the JoinStatus
\* classifies as a terminal outcome (success or one failure reason), not as
\* in-progress or invalid.
C2_SignalIsTerminal ==
    [][\A t \in Threads :
          join_sema'[t].count > join_sema[t].count
          => whd_wifi_check_join_status(whd_join_status') \in TerminalStatus]_vars

\* thread u is inside a join call, between its prepare step and its cleanup
InAttempt(u) ==
    /\ hist[u].op \in JoinOps
    /\ pc[u] \in {"prepare_check", "prepare_config", "prepare_register", "associate",
                  "wait_get", "wait_check", "mpdu_per_ampdu", "leave_deregister",
                  "leave_clear", "deinit_get"}

\* C3: while one join call is between its prepare step and its cleanup, no
\* other join call installs its own semaphore as the active-join semaphore
\* or registers the join handler for itself.
C3_OneActiveJoin ==
    [][\A t, u \in Threads :
          t # u /\ InAttempt(u)
          => /\ active_join_semaphore' = t => active_join_semaphore = t
             /\ join_entry'.user_data = t => join_entry.user_data = t]_vars

\* a step of the join handler's switch: the only step that counts an event
HandlerStep == nevents' # nevents

\* C4 as stated: the JoinStatus changes only in steps of the join handler on
\* the worker thread, never in a step of an application thread.
C4_OnlyHandlerWrites == [][whd_join_status' # whd_join_status => HandlerStep]_vars

\* C4 as amended: a step of an application thread changes the JoinStatus only
\* by clearing it to 0 (prepare, leave) or by setting SecurityComplete
\* (prepare, for security without a key exchange); every other change of a
\* bit is made by the join handler.
C4_AppWritesClearOrSecurityComplete ==
    [][whd_join_status' # whd_join_status /\ ~HandlerStep
       => \/ whd_join_status' = 0
          \/ whd_join_status' = BitOr(whd_join_status, JOIN_SECURITY_COMPLETE)]_vars

\* prepare has set SecurityComplete on the application thread
C4_Witness ==
    \E t \in Threads : pc[t] = "associate" /\ whd_join_status = JOIN_SECURITY_COMPLETE

\* C5: every return of a join call made after its join semaphore was created
\* has run the cleanup step.
C5_CleanupAlwaysRuns ==
    \A t \in Threads : Returned(t) /\ hist[t].sem_created => hist[t].cleanup

\* C6 as stated: whenever a join call returns a failure, a leave has been
\* attempted before it returned.
C6_LeaveOnEveryFailure == \A t \in Threads : ReturnedFailure(t) => hist[t].leave

\* C6 as amended: a join call that returns a failure has attempted a leave
\* exactly when the failure was decided by wait-for-complete (the wait ended
\* without the interface being ready); failures of the argument checks, of
\* prepare, of the associate command and of the MPDU-per-AMPDU command
\* return without a leave.
C6_LeaveAfterFailedWait ==
    \A t \in Threads :
        ReturnedFailure(t) => (hist[t].leave <=> hist[t].stage \in {"wait", "leave"})

\* a join has returned the failure that the wait ended with, after a leave
C6_Witness ==
    \E t \in Threads : ReturnedFailure(t) /\ hist[t].stage = "wait" /\ hist[t].leave

\* C7 as stated: after a failed join has returned R, is_ready_to_transceive
\* returns R.
C7_ReadyReturnsReason ==
    \A t \in Threads :
        ReturnedFailure(t) => whd_wifi_is_ready_to_transceive(role, whd_join_status) = ret[t]

\* C7 as amended: after a failed join has returned through the cleanup step
\* or after its leave completed, is_ready_to_transceive returns
\* WHD_UNKNOWN_INTERFACE (the role was reset), not the reason the join returned.
C7_ReadyUnknownInterface ==
    \A t \in Threads :
        ReturnedFailure(t) /\ (hist[t].cleanup \/ hist[t].stage = "wait")
        => whd_wifi_is_ready_to_transceive(role, whd_join_status) = "WHD_UNKNOWN_INTERFACE"

\* a join that failed in prepare or at the associate command has returned
\* through the cleanup
C7_Witness ==
    \E t \in Threads :
        ReturnedFailure(t) /\ hist[t].cleanup /\ hist[t].stage \in {"prepare", "associate"}

\* C8: whenever a join call returns a failure, the interface role is Invalid.
C8_RoleInvalidOnFailure ==
    \A t \in Threads : ReturnedFailure(t) => role = "WHD_INVALID_ROLE"

\* thread t is waiting for its join attempt to complete
Waiting(t) == hist[t].op \in JoinOps /\ pc[t] \in {"wait_get", "wait_check"}

\* C9: failure outcomes are absorbing for a join attempt: once the JoinStatus
\* classifies as a failure reason while the join waits, no later join event
\* of the attempt changes the classification, so that the reason the join
\* returns when the wait ends is the reason first seen.
C9_FailureAbsorbing ==
    [][(\E t \in Threads : Waiting(t))
       /\ whd_wifi_check_join_status(whd_join_status) \in FailureStatus
       /\ HandlerStep
       => whd_wifi_check_join_status(whd_join_status')
              = whd_wifi_check_join_status(whd_join_status)]_vars

\* C10: a join of scenario S4 (WPA2-AES-PSK; SetSsid ok, Link up, Auth ok,
\* PskSup WAIT_M1 with reason PSK timeout, all handled before the wait ended)
\* returns WHD_EAPOL_KEY_PACKET_M1_TIMEOUT.
C10_S4ReturnsM1Timeout ==
    \A t \in Threads :
        Returned(t) /\ script.name = "S4" /\ hist[t].script_done /\ hist[t].stage = "wait"
        => ret[t] = "WHD_EAPOL_KEY_PACKET_M1_TIMEOUT"

\* C11: a join of scenario S3 (Open security; the only join event is SetSsid
\* with status NoNetworks, handled before the wait ended) returns
\* WHD_NETWORK_NOT_FOUND.
C11_S3ReturnsNetworkNotFound ==
    \A t \in Threads :
        Returned(t) /\ script.name = "S3" /\ hist[t].script_done /\ hist[t].stage = "wait"
        => ret[t] = "WHD_NETWORK_NOT_FOUND"

C13_S1SuccessWithoutTimeout ==
    /\ [](\A t \in Threads :
            Returned(t) /\ script.name = "S1" /\ hist[t].script_done
            => ret[t] = "WHD_SUCCESS" /\ hist[t].stage = "complete")
    /\ [][\A t \in Threads :
            /\ script.name = "S1" /\ script.todo = <<>> /\ worker.pc = "idle"
            /\ pc[t] = "wait_get" /\ pc'[t] = "wait_check"
            => join_sema[t].count = 1 /\ join_sema'[t].count = 0]_vars

\* the join of scenario S1 has returned success through the cleanup
C13_Witness ==
    \E t \in Threads :
        /\ Returned(t) /\ script.name = "S1" /\ hist[t].script_done
        /\ ret[t] = "WHD_SUCCESS" /\ hist[t].cleanup

\* the outcome that the classifier table of the join state machine assigns to
\* a JoinStatus: the first row whose bits are all set
TableOutcome(js) ==
    LET Has(m) == \A b \in Bits : HasBit(m, b) => HasBit(js, b)
        AuthLink == JOIN_AUTHENTICATED + JOIN_LINK_READY
    IN
    CASE Has(JOIN_NO_NETWORKS) -> "WHD_NETWORK_NOT_FOUND"
      [] Has(AuthLink + JOIN_SSID_SET + JOIN_SECURITY_COMPLETE) -> "WHD_SUCCESS"
      [] Has(AuthLink + JOIN_EAPOL_KEY_M1_TIMEOUT) -> "WHD_EAPOL_KEY_PACKET_M1_TIMEOUT"
      [] Has(AuthLink + JOIN_EAPOL_KEY_M3_TIMEOUT) -> "WHD_EAPOL_KEY_PACKET_M3_TIMEOUT"
      [] Has(AuthLink + JOIN_EAPOL_KEY_G1_TIMEOUT) -> "WHD_EAPOL_KEY_PACKET_G1_TIMEOUT"
      [] Has(AuthLink + JOIN_EAPOL_KEY_FAILURE) -> "WHD_EAPOL_KEY_FAILURE"
      [] Has(AuthLink) /\ BitClear(js, JOIN_SECURITY_FLAGS_MASK) = js -> "WHD_NOT_KEYED"
      [] js = JOIN_SECURITY_COMPLETE -> "WHD_NOT_AUTHENTICATED"
      [] js = 0 -> "WHD_NOT_AUTHENTICATED"
      [] OTHER -> "WHD_INVALID_JOIN_STATUS"

\* thread t has returned from a whd_wifi_is_ready_to_transceive call
ReadyReturned(t) == pc[t] = "done" /\ hist[t].op = "is_ready"

EapolBits == {JOIN_EAPOL_KEY_M1_TIMEOUT, JOIN_EAPOL_KEY_M3_TIMEOUT,
              JOIN_EAPOL_KEY_G1_TIMEOUT, JOIN_EAPOL_KEY_FAILURE}

JoinSuccessStatus ==
    JOIN_AUTHENTICATED + JOIN_LINK_READY + JOIN_SSID_SET + JOIN_SECURITY_COMPLETE

\* C14: for every combination of the ten JoinStatus bits the classifier
\* (whd_wifi_check_join_status, reached through a station interface) returns
\* the outcome the table assigns to the combination, and
\* WHD_INVALID_JOIN_STATUS for a combination that matches no row.
C14_ClassifierConformsToTable ==
    \A t \in Threads :
        ReadyReturned(t) /\ role = "WHD_STA_ROLE" => ret[t] = TableOutcome(whd_join_status)

\* C15 as stated: whenever an EAPOL timeout or failure bit is set in the
\* interface's JoinStatus, whd_wifi_is_ready_to_transceive does not return
\* success, and it returns success only when the JoinStatus is exactly
\* {Authenticated, LinkReady, SsidSet, SecurityComplete}.
C15_SuccessOnlyWhenExact ==
    \A t \in Threads :
        ReadyReturned(t) =>
            /\ (\E b \in EapolBits : HasBit(whd_join_status, b)) => ret[t] # "WHD_SUCCESS"
            /\ ret[t] = "WHD_SUCCESS" => whd_join_status = JoinSuccessStatus

\* C15 as amended: the same for an interface in the station role.
C15_StaSuccessOnlyWhenExact ==
    \A t \in Threads :
        ReadyReturned(t) /\ role = "WHD_STA_ROLE" =>
            /\ (\E b \in EapolBits : HasBit(whd_join_status, b)) => ret[t] # "WHD_SUCCESS"
            /\ ret[t] = "WHD_SUCCESS" => whd_join_status = JoinSuccessStatus

\* a station interface whose JoinStatus is the success value plus an EAPOL
\* bit has been asked and has not answered success
C15_Witness ==
    \E t \in Threads :
        /\ ReadyReturned(t) /\ role = "WHD_STA_ROLE" /\ ret[t] # "WHD_SUCCESS"
        /\ whd_join_status = JoinSuccessStatus + JOIN_EAPOL_KEY_M3_TIMEOUT

\* C16 as stated: the time a join spends blocked on the join semaphore in
\* wait-for-complete never exceeds DEFAULT_JOIN_ATTEMPT_TIMEOUT (9000 ms),
\* and the wait always terminates.
C16_WaitWithinTimeout ==
    /\ [](\A t \in Threads : hist[t].waited <= DEFAULT_JOIN_ATTEMPT_TIMEOUT)
    /\ \A t \in Threads : Waiting(t) ~> ~Waiting(t)

\* C16 as amended: the time blocked stays below DEFAULT_JOIN_ATTEMPT_TIMEOUT
\* plus one semaphore timeout (a semaphore wait starts only while less than
\* 9000 ms have elapsed and lasts at most 900 ms), and the wait always
\* terminates.
C16_WaitBelowTimeoutPlusSlice ==
    /\ [](\A t \in Threads :
            hist[t].waited < DEFAULT_JOIN_ATTEMPT_TIMEOUT + SemaTimeout)
    /\ \A t \in Threads : Waiting(t) ~> ~Waiting(t)

\* a join has returned after a wait that a signal at 8999 ms stretched to
\* 9899 ms
C16_Witness ==
    \E t \in Threads :
        /\ Returned(t) /\ hist[t].stage = "wait"
        /\ hist[t].waited = DEFAULT_JOIN_ATTEMPT_TIMEOUT + SemaTimeout - 1

\* C17: when the application thread wakes from the join semaphore because the
\* join handler signalled it, the JoinStatus it then reads contains the
\* update of the event that caused the signal: unless a later event has been
\* handled since, it is the value which that event's handler wrote.
C17_ReadSeesSignalledUpdate ==
    \A t \in Threads :
        pc[t] = "wait_check" /\ loc[t].woken.ev > 0 /\ nevents = loc[t].woken.ev
        => whd_join_status = loc[t].woken.js

\* a thread woken by the handler of an event that changed the join status is
\* about to read it
C17_Witness ==
    \E t \in Threads :
        /\ pc[t] = "wait_check" /\ loc[t].woken.ev > 0 /\ nevents = loc[t].woken.ev
        /\ whd_join_status = loc[t].woken.js
        /\ \E b \in EapolBits : HasBit(whd_join_status, b)

\* C18: the active-join mutex is held only across the assignment of the
\* active-join semaphore pointer and the signalling of that semaphore: a
\* thread that holds it is about to assign the pointer (join init, cleanup)
\* or to signal (handler); no thread holds it while it waits on the join
\* semaphore or on a firmware command.
C18_MutexOnlyAcrossSwapAndSignal ==
    /\ \A t \in Threads :
          active_join_mutex.holder = t => pc[t] \in {"active_join_set", "deinit"}
    /\ active_join_mutex.holder = "worker" => worker.pc = "signal"

\* one thread waits on its join semaphore while the handler holds the mutex
C18_Witness ==
    /\ active_join_mutex.holder = "worker"
    /\ \E t \in Threads : pc[t] = "wait_get"

\* what the most recent link-affecting event of a sequence of join events
\* said about the link: "up" (WLC_E_LINK with the link flag), "down"
\* (WLC_E_LINK without it, DEAUTH_IND, DISASSOC_IND) or "none"
RECURSIVE LastLink(_)
LastLink(evs) ==
    IF evs = <<>> THEN "none"
    ELSE LET e == evs[Len(evs)] IN
         IF e.type = "WLC_E_LINK"
         THEN IF HasBit(e.flags, WLC_EVENT_MSG_LINK) THEN "up" ELSE "down"
         ELSE IF e.type \in {"WLC_E_DEAUTH_IND", "WLC_E_DISASSOC_IND"} THEN "down"
         ELSE LastLink(SubSeq(evs, 1, Len(evs) - 1))

\* C19: after any sequence of join events LinkReady is set only if the most
\* recent link-affecting event was a Link event with the link-up flag; after
\* a Link event without the flag, a DEAUTH_IND or a DISASSOC_IND it is clear.
C19_LinkReadyFollowsLastLinkEvent ==
    HasBit(whd_join_status, JOIN_LINK_READY) => LastLink(script.done) = "up"

\* a link that came up and was then deauthenticated: LinkReady is clear again
C19_Witness ==
    /\ Len(script.done) >= 2
    /\ script.done[1] = LinkUp
    /\ LastLink(script.done) = "down"
    /\ ~HasBit(whd_join_status, JOIN_LINK_READY)

\* the results with which a join call refuses an argument
ArgErrors == {"WHD_BADARG", "WHD_WLAN_BADSSIDLEN", "WHD_INVALID_KEY", "WHD_WLAN_BADARG"}

\* C20: a join / join_specific call that is rejected for an invalid argument
\* (null SSID, SSID length 0 or > 32, all-zero or broadcast BSSID, key length
\* outside 8..64 for a PSK security type, SAE password too long) has sent no
\* IOCTL or IOVAR to the firmware when it returns its error
C20_ArgErrorBeforeAnyIoctl ==
    \A t \in Threads : Returned(t) /\ ret[t] \in ArgErrors => ~hist[t].ioctl

\* the associate step of a join_specific call has sent its "join" IOVAR
SentJoinIovar(t) == hist[t].op = "join_specific" /\ hist[t].join_iovar # "-"

\* C21: in the associate step of join_specific the WLC_SET_SSID fallback is
\* issued if and only if the "join" IOVAR returned WHD_WLAN_UNSUPPORTED
C21_SetSsidIffJoinUnsupported ==
    \A t \in Threads :
        SentJoinIovar(t) => (hist[t].set_ssid <=> hist[t].join_iovar = "WHD_WLAN_UNSUPPORTED")

\* C21 as the code has it: WLC_SET_SSID is issued only if the IOVAR returned
\* WHD_WLAN_UNSUPPORTED, and then always unless the step returned
\* WHD_BUFFER_ALLOC_FAIL because the buffer of the IOCTL could not be had;
\* another failure of the IOVAR is the result of the step
C21_SetSsidOnlyIfJoinUnsupported ==
    \A t \in Threads :
        SentJoinIovar(t) =>
            /\ hist[t].set_ssid => hist[t].join_iovar = "WHD_WLAN_UNSUPPORTED"
            /\ hist[t].join_iovar = "WHD_WLAN_UNSUPPORTED" /\ ~hist[t].set_ssid
                  => pc[t] = "done" /\ ret[t] = "WHD_BUFFER_ALLOC_FAIL"
            /\ hist[t].join_iovar = "WHD_IOCTL_FAIL" =>
                  /\ ~hist[t].set_ssid
                  /\ pc[t] = "done" => ret[t] = "WHD_IOCTL_FAIL"

\* the IOVAR was not supported and the call went on with WLC_SET_SSID
C21_Witness ==
    \E t \in Threads :
        /\ SentJoinIovar(t) /\ hist[t].join_iovar = "WHD_WLAN_UNSUPPORTED"
        /\ hist[t].set_ssid /\ pc[t] = "wait_get"

\* the step of the prepare list (1-14) that a command belongs to for a
\* security type, 0 for what is none of the listed steps: a test of the key
\* length sends nothing, and the EAPOL key packet timeout is step 9 for
\* WPA3_SAE and WPA3_WPA2_PSK only; the supplicant enable that
\* whd_wifi_enable_sup_set_passphrase repeats is taken as part of its install
PrepareStep(auth_type, name) ==
    CASE name = "mfp_get" -> 2
      [] name = "WLC_SET_WSEC" -> 3
      [] name = "roam_off=0" -> 4
      [] name \in {"bsscfg:wpa_auth", "bsscfg:wsec", "wowl"} -> 5
      [] name = "bsscfg:sup_wpa" -> 6
      [] name = "bsscfg:sup_wpa2_eapver" -> 7
      [] name \in {"passphrase_length", "psk_length", "sae_password_length"} -> 0
      [] name \in {"enable_sup:sup_wpa", "delay_passphrase", "WLC_SET_WSEC_PMK",
                   "delay_sae_password", "sae_password"} -> 8
      [] name \in {"sup_wpa_tmo", "roam_off=1"} ->
            IF auth_type \in {"WHD_SECURITY_WPA3_SAE", "WHD_SECURITY_WPA3_WPA2_PSK"}
            THEN 9 ELSE 0
      [] name = "WLC_SET_INFRA" -> 10
      [] name = "WLC_SET_AUTH" -> 11
      [] name = "mfp_set" -> 12
      [] name = "WLC_SET_WPA_AUTH" -> 13

\* C22: prepare performs its operations in the order of steps 1-14: of two
\* commands that belong to listed steps the one performed first has the lower
\* or the same step number (so the key install, step 8, comes before the
\* EAPOL key packet timeout, step 9), and the join handler is registered
\* (step 14) only when all commands have been performed
C22_PrepareInStepOrder ==
    \A t \in Threads :
        LET tr == hist[t].cmds
            st(i) == PrepareStep(loc[t].auth_type, tr[i].name)
        IN /\ \A i, j \in 1..Len(tr) :
                 i < j /\ st(i) # 0 /\ st(j) # 0 => st(i) <= st(j)
           /\ join_entry.registered
                 => pc[t] # "prepare_config"

\* the cy_rtos_delay_milliseconds(1) before a key install
KeyDelays == {"delay_passphrase", "delay_sae_password"}

\* C23: if the delay before the install of the passphrase or the SAE
\* password fails, prepare fails there: no command follows the delay, so the
\* key is not sent, and the join call does not return success
C23_DelayFailureIsFatal ==
    \A t \in Threads :
        LET tr == hist[t].cmds IN
        \A i \in 1..Len(tr) :
            tr[i].name \in KeyDelays /\ tr[i].outcome # "WHD_SUCCESS" =>
                /\ i = Len(tr)
                /\ pc[t] \in {"deinit_get", "deinit", "done"}
                /\ pc[t] = "done" => ret[t] # "WHD_SUCCESS"

\* C24: a failure of the MFP IOVAR in prepare, reading the setting (step 2)
\* or writing it (step 12), is ignored: prepare does not end at that command
\* but goes on with the commands that follow
C24_MfpFailureIgnored ==
    \A t \in Threads :
        LET tr == hist[t].cmds IN
        \A i \in 1..Len(tr) :
            tr[i].name \in {"mfp_get", "mfp_set"} /\ tr[i].outcome # "WHD_SUCCESS" =>
                ~(i = Len(tr) /\ hist[t].stage = "prepare")

\* the join status after the join events evs have been handled in turn
RECURSIVE StatusAfter(_, _)
StatusAfter(js, evs) ==
    IF evs = <<>> THEN js ELSE StatusAfter(HandlerStatus(js, Head(evs)), Tail(evs))

\* what a join on a freshly initialised driver returns from its wait for the
\* join events that the call of thread t was sent between its prepare and
\* its last look at the join status
FreshClassification(t) ==
    whd_wifi_check_join_status(
        StatusAfter(PrepareStatus(0, script.auth_type, FALSE),
                    SubSeq(script.done, hist[t].ev0 + 1, hist[t].ev1)))

\* the interface is back in the state of a driver that has not joined
InterfaceInvalid ==
    /\ role = "WHD_INVALID_ROLE"
    /\ whd_join_status = 0
    /\ ~join_entry.registered
    /\ ~active_join_mutex.initted

\* a join call has what it needs once prepare has returned, and what it
\* returns from its wait is the classification of a fresh join
JoinAsFresh(t) ==
    /\ hist[t].op = "join" /\ pc[t] = "associate"
          => /\ active_join_mutex.initted /\ active_join_semaphore = t
             /\ join_sema[t].alive
             /\ join_entry.registered
    /\ Returned(t) /\ hist[t].stage \in {"complete", "wait"}
          => ret[t] = FreshClassification(t)

\* C25: for join, leave, join in sequence on one interface: after the leave
\* the role is invalid, the join status 0, the join handler unregistered and
\* the active-join mutex destroyed; the second join re-creates what it needs
\* and ends in the classification that a join on a fresh driver reaches for
\* the same join events
C25_JoinLeaveJoin ==
    \A t \in Threads :
        /\ pc[t] = "done" /\ hist[t].op = "leave" => InterfaceInvalid
        /\ JoinAsFresh(t)

\* a call of a deregistering operation has returned
Deregistering(t) ==
    pc[t] = "done" /\ hist[t].op \in {"leave", "stop_external_auth_request"}

\* thread t is at the deregistration of its leave and the join entry is
\* unregistered, or starts a stop with the auth entry unregistered
AtDeregistrationOfUnregistered(t) ==
    \/ pc[t] = "leave_deregister" /\ pc'[t] # pc[t] /\ ~join_entry.registered
    \/ /\ Idle(t) /\ ~auth_entry.registered /\ ncalls' # ncalls
       /\ hist'[t].op = "stop_external_auth_request"

\* C26: deregistering a handler category is idempotent: a leave (join
\* category) or a whd_wifi_stop_external_auth_request (auth category) made
\* when the category's entry is already unregistered makes no
\* deregistration, leaves the registration table unchanged and returns
\* success; a call made right after a call of the same operation leaves what
\* that one left
C26_DeregistrationIdempotent ==
    /\ [][\A t \in Threads :
            AtDeregistrationOfUnregistered(t)
                => /\ hist'[t].dereg = 0
                   /\ join_entry'.registered = join_entry.registered
                   /\ auth_entry'.registered = auth_entry.registered]_vars
    /\ [](\A t \in Threads :
            Deregistering(t)
                => /\ hist[t].dereg = 0 => ret[t] = "WHD_SUCCESS"
                   /\ \A p \in hist[t].prev : DeregEffect(t, hist[t].op) = p)

\* the entries of a scan log that satisfy P
CountLog(log, P(_)) == Len(SelectSeq(log, P))

\* a Partial event that the scan handler received
IsPartial(h) == h.status = "WLC_E_STATUS_PARTIAL" /\ h.drop # "no_handler"
IsIncomplete(h) == h.callbacks # <<>> /\ Head(h.callbacks) = "WHD_SCAN_INCOMPLETE"
\* a Partial event dropped as off-channel or for a parse failure
IsDropped(h) == IsPartial(h) /\ h.defect /\ h.drop # "no_callback"
\* a Partial event that found no scan callback set
IsUncalled(h) == IsPartial(h) /\ h.drop = "no_callback"

RECURSIVE ScanCallbacksMade(_)
ScanCallbacksMade(log) ==
    IF log = <<>> THEN <<>> ELSE Head(log).callbacks \o ScanCallbacksMade(Tail(log))

\* ... of the current scan
ScanMade == ScanCallbacksMade(scan_log)

TerminalCallbacks == {"WHD_SCAN_COMPLETED_SUCCESSFULLY", "WHD_SCAN_ABORTED"}

IsTerminalCallback(c) == c \in TerminalCallbacks

\* the escan that whd_wifi_scan started has been ended by the firmware
ScanOver == scan_log # <<>> /\ ~scan.fw

\* C28: for every scan started with whd_wifi_scan, the SCAN_INCOMPLETE
\* callbacks are followed by exactly one terminal callback
\* (SCAN_COMPLETED_SUCCESSFULLY or SCAN_ABORTED), after which the callback is
\* not invoked again for that scan and the scan handler is unregistered; a
\* scan whose only event is of status Success makes exactly one callback,
\* SCAN_COMPLETED_SUCCESSFULLY
C28_OneTerminalCallback ==
    /\ [](\A i \in 1..Len(ScanMade) : IsTerminalCallback(ScanMade[i]) => i = Len(ScanMade))
    /\ [](ScanOver => Len(SelectSeq(ScanMade, IsTerminalCallback)) = 1)
    /\ [](ScanOver /\ Len(scan_log) = 1 /\ scan_log[1].status = "WLC_E_STATUS_SUCCESS"
             => ScanMade = <<"WHD_SCAN_COMPLETED_SUCCESSFULLY">>)
    /\ [][Len(ScanMade') > Len(ScanMade) /\ IsTerminalCallback(ScanMade'[Len(ScanMade')])
             => ~scan'.entry.registered /\ scan'.callback = NULL]_vars

BusUpFailures == {"WHD_BUS_UP_FAIL", "WHD_SDIO_BUS_UP_FAIL"}

\* C29: on clock-gate chips whd_ensure_wlan_bus_is_up polls the chip-clock
\* CSR at most WLAN_BUS_UP_ATTEMPTS times, HT_AVAIL_WAIT_MS apart; it fails
\* with a bus-up failure only if no poll observed HT_AVAIL, and if a poll
\* observed HT_AVAIL it marks the bus up and returns success
C29_HtAvailPolls ==
    bus.path = "ht"
        => /\ bus.polls <= WLAN_BUS_UP_ATTEMPTS
           /\ bus.waited <= bus.polls * HT_AVAIL_WAIT_MS
           /\ bus.pc = "done" /\ bus.ret \in BusUpFailures => ~bus.seen
           /\ bus.pc = "done" /\ bus.seen => bus.up /\ bus.ret = "WHD_SUCCESS"

KsoRelease == bus.path \in {"kso_off", "bt"}

\* C31 (as stated): on release toward sleep of any KSO-capable chip the driver
\* writes a zero KSO value, never reads the sleep CSR back, and has marked the
\* bus down
C31_ReleaseWithoutReadBack ==
    (KsoRelease /\ bus.pc = "done") =>
        /\ bus.written = {0}
        /\ bus.polls = 0
        /\ ~bus.up

\* C31 (amended): the bus is marked down before anything is written and only
\* zero is ever written; with a Bluetooth interrupt callback nothing is written;
\* otherwise a chip outside 43430/43439/43340/43342 gets one write, no read
\* and success, and one of those four gets two writes and then at most
\* MAX_KSO_ATTEMPTS reads, one more write after every read that did not show
\* KEEP_WL_KSO clear, success only after a read that showed it clear, and
\* WHD_SDIO_BUS_UP_FAIL after MAX_KSO_ATTEMPTS reads that did not
C31_ReleaseReadBackOnlyTwoWriteChips ==
    KsoRelease =>
        /\ ~bus.up
        /\ bus.written \subseteq {0}
        /\ bus.path = "bt" => bus.writes = 0 /\ bus.polls = 0 /\ bus.ret = "WHD_SUCCESS"
        /\ (bus.path = "kso_off" /\ bus.pc = "done" /\ chip_id \notin TwoWriteChips) =>
               bus.writes = 1 /\ bus.written = {0} /\ bus.polls = 0
               /\ bus.ret = "WHD_SUCCESS"
        /\ (bus.path = "kso_off" /\ bus.pc = "done" /\ chip_id \in TwoWriteChips) =>
               /\ bus.written = {0}
               /\ bus.polls \in 1..MAX_KSO_ATTEMPTS
               /\ bus.ret \in {"WHD_SUCCESS", "WHD_SDIO_BUS_UP_FAIL"}
               /\ bus.ret = "WHD_SUCCESS" <=> bus.seen
               /\ bus.ret = "WHD_SUCCESS" => bus.writes = bus.polls + 1
               /\ bus.ret = "WHD_SDIO_BUS_UP_FAIL" =>
                      bus.polls = MAX_KSO_ATTEMPTS /\ bus.writes = MAX_KSO_ATTEMPTS + 2

\* a two-write chip released after reads of the sleep CSR, the last of which
\* showed KEEP_WL_KSO clear
C31_Witness ==
    /\ bus.path = "kso_off" /\ bus.pc = "done" /\ chip_id \in TwoWriteChips
    /\ bus.polls > 1 /\ bus.ret = "WHD_SUCCESS"

\* ------------------------------------------------------------------------
\* Properties of the WLAN lifecycle
\* ------------------------------------------------------------------------
\* C32: whd_deinit called in state Down or Up, or with the bus attached,
\* returns an error and frees nothing; whenever it frees the interfaces and the
\* driver the state is Off, and it then frees every interface and the driver
C32_DeinitOnlyWhenOff ==
    wlan.op = "whd_deinit" =>
        /\ (wlan.pre # "WLAN_OFF" \/ wlan.bus_attached) =>
               /\ wlan.ret \notin {"WHD_SUCCESS", "-"}
               /\ wlan.freed = {}
               /\ wlan.driver = "allocated"
        /\ wlan.freed # {} =>
               /\ wlan.pre = "WLAN_OFF" /\ wlan.state = "WLAN_OFF"
               /\ "driver" \in wlan.freed
               /\ wlan.iflist = {} /\ wlan.driver = "freed"
               /\ wlan.ret = "WHD_SUCCESS"

\* a driver torn down in state Off after it had been on, and a deinit refused
\* because only the bus was still attached
C32_Witness ==
    /\ wlan.op = "whd_deinit" /\ wlan.ret = "WHD_SUCCESS" /\ wlan.freed = {"wlan0", "driver"}

C32_WitnessRefused ==
    /\ wlan.op = "whd_deinit" /\ wlan.ret = "WHD_WLAN_NOTDOWN"
    /\ wlan.pre = "WLAN_OFF" /\ wlan.bus_attached

\* the last lifecycle call sent cmd and the firmware accepted it
Succeeded(w, cmd) == \E i \in 1..Len(w.cmds) : w.cmds[i] = Sent(cmd, TRUE)

\* the state becomes Up only in a call whose UP command has succeeded
BecomesUpByCommand ==
    (wlan.state # "WLAN_UP" /\ wlan'.state = "WLAN_UP") => Succeeded(wlan', "WLC_UP")

\* the state leaves Up only in a call whose DOWN command has succeeded
LeavesUpByCommand ==
    (wlan.state = "WLAN_UP" /\ wlan'.state # "WLAN_UP") => Succeeded(wlan', "WLC_DOWN")

\* the state leaves Up in a call whose DOWN command has succeeded, or is reset
\* to Off by the deep-sleep wake of a 43012 or 43022 in a build with ULP support
LeavesUpByCommandOrDeepSleepWake ==
    (wlan.state = "WLAN_UP" /\ wlan'.state # "WLAN_UP") =>
        \/ Succeeded(wlan', "WLC_DOWN")
        \/ /\ wlan'.op = "whd_wlan_bus_complete_ds_wake" /\ wlan.ulp
           /\ chip_id \in {43012, 43022} /\ wlan'.state = "WLAN_OFF"

\* set_up on an interface in state Up sends nothing and returns success;
\* set_down in a state other than Up sends nothing, keeps the state and returns
\* WHD_INTERFACE_NOT_UP
SetUpDownWithoutCommand ==
    /\ (wlan.op = "whd_wifi_set_up" /\ wlan.pre = "WLAN_UP"
            /\ wlan.ret # "WHD_UNKNOWN_INTERFACE") =>
           wlan.cmds = <<>> /\ wlan.ret = "WHD_SUCCESS" /\ wlan.state = "WLAN_UP"
    /\ (wlan.op = "whd_wifi_set_down" /\ wlan.pre # "WLAN_UP") =>
           wlan.cmds = <<>> /\ wlan.ret = "WHD_INTERFACE_NOT_UP" /\ wlan.state = wlan.pre

\* C38 (as stated): the lifecycle state becomes Up only when an Up command has
\* succeeded and leaves Up only when a Down command has succeeded; set_up in
\* state Up and set_down in any other state send no command
C38_UpOnlyByCommands ==
    /\ [][BecomesUpByCommand /\ LeavesUpByCommand]_vars
    /\ []SetUpDownWithoutCommand

\* C38 (amended): as stated, but the state also leaves Up, for Off, when a
\* 43012 or 43022 of a build with ULP support wakes from deep sleep
C38_UpOnlyByCommandsOrDeepSleepWake ==
    /\ [][BecomesUpByCommand /\ LeavesUpByCommandOrDeepSleepWake]_vars
    /\ []SetUpDownWithoutCommand

\* the state has become Up in whd_wifi_on and has then left Up in a set_down
\* whose DOWN command succeeded
C38_Witness ==
    /\ wlan.op = "whd_wifi_set_down" /\ wlan.pre = "WLAN_UP"
    /\ wlan.state = "WLAN_DOWN" /\ Succeeded(wlan, "WLC_DOWN")

\* ------------------------------------------------------------------------
\* Properties of the active-join mutex and the join semaphores
\* ------------------------------------------------------------------------
\* thread t takes its step from position from
StepsFrom(t, from) == pc[t] = from /\ pc'[t] # from

\* the step takes or releases the active-join mutex: the get and the set of
\* whd_wifi_active_join_init and of whd_wifi_active_join_deinit, and the get
\* and the set of the join handler
UsesMutex ==
    \/ \E t \in Threads :
          \E from \in {"active_join_get", "active_join_set", "deinit_get", "deinit"} :
             StepsFrom(t, from)
    \/ worker.pc \in {"get", "signal"} /\ worker'.pc # worker.pc

\* C33: no thread takes, releases or signals the active-join mutex or a join
\* semaphore between its deinitialisation and its next initialisation; the
\* mutex is initialised before each of its uses and is uninitialised at one of
\* them only if whd_wifi_leave has destroyed it since
C33_NoUseAfterDeinit ==
    [][/\ UsesMutex => active_join_mutex.initted
       /\ \A t \in Threads : StepsFrom(t, "wait_get") => join_sema[t].alive
       /\ (worker.pc = "signal" /\ worker'.pc # "signal" /\ active_join_semaphore # NULL) =>
              join_sema[active_join_semaphore].alive]_vars

\* thread t has been woken from its join semaphore by the handler of the last
\* event handled, which left a join status that classifies as a failure
\* reason, and is about to read the status
WokenByFailure(t) ==
    /\ pc[t] = "wait_check" /\ hist[t].op \in JoinOps
    /\ loc[t].woken.ev > 0 /\ nevents = loc[t].woken.ev
    /\ whd_wifi_check_join_status(loc[t].woken.js) \in FailureStatus

\* C34: when the handler has signalled the join semaphore for a status that
\* classifies as Failure{reason}, wait-for-complete stops waiting at that
\* wake-up, whatever is left of the 9000 ms, and goes on to return that reason
C34_FailureSignalEndsWait ==
    [][\A t \in Threads :
          (WokenByFailure(t) /\ pc'[t] # pc[t]) =>
              /\ pc'[t] # "wait_get"
              /\ loc'[t].result = whd_wifi_check_join_status(loc[t].woken.js)]_vars

\* the join handler signals the active-join semaphore in this step
HandlerSignals ==
    worker.pc = "signal" /\ worker'.pc # "signal" /\ active_join_semaphore # NULL

\* C35: the join handler signals a join semaphore only for an event of the
\* attempt that semaphore was registered for: the semaphore it signals, the
\* driver's active-join semaphore, is the one handed to the handler as the
\* user data of the event ("Unexpected semaphore" otherwise), and is the
\* semaphore of a join that is waiting or about to wait for that event
C35_SignalOnlyOwnAttempt ==
    [][HandlerSignals => active_join_semaphore = worker.semaphore]_vars

\* C36: when a whd_wifi_join / whd_wifi_join_specific call that has created
\* its join semaphore returns, that semaphore has been deinitialised, by the
\* cleanup or by the leave of the wait but not by both, and the driver's
\* active-join semaphore no longer points to it
C36_SemaphoreDeinitialisedOnReturn ==
    \A t \in Threads :
        (Returned(t) /\ hist[t].sem_created) =>
            /\ ~join_sema[t].alive
            /\ active_join_semaphore # t
            /\ ~(hist[t].cleanup /\ hist[t].leave)

\* ------------------------------------------------------------------------
\* The worker thread of the RTOS abstraction: cy_worker_thread_func,
\* cy_worker_thread_delete, cy_worker_thread_enqueue (cy_worker_thread.c)
\* ------------------------------------------------------------------------
\* every variable but worker_info
whd == <<chip_id, role, whd_join_status, keep_wlan_awake, active_join_mutex,
         active_join_semaphore, join_sema, join_entry, pc, loc, ret, worker, hist,
         script, ncalls, nevents, clock, auth_entry, scan, scan_log, bus, wlan, synch,
         dhcp>>

\* the work item of the k-th call of enqueuer e
WorkItem(e, k) == [work_func |-> e, arg |-> k]
\* the terminating item of delete: "{ NULL, NULL }"
NullItem == [work_func |-> NULL, arg |-> 0]

\* cy_rtos_queue_put with timeout 0 on a queue of MaxEntries entries
QueueFull(w) == Len(w.event_queue) >= MaxEntries
QueuePut(w, item) ==
    [w EXCEPT !.event_queue = Append(@, item), !.queued = Append(@, item)]

\* the loop of cy_worker_thread_func: it takes the item at the head of the
\* queue, blocking while there is none, runs a work function and exits at a
\* NULL work function
cy_worker_thread_func ==
    /\ worker_info.thread = "running"
    /\ worker_info.event_queue # <<>>
    /\ LET dispatch_info == Head(worker_info.event_queue)
           w == [worker_info EXCEPT !.event_queue = Tail(@)]
       IN  worker_info' = IF dispatch_info.work_func # NULL
                          THEN [w EXCEPT !.done = Append(@, dispatch_info)]
                          ELSE [w EXCEPT !.thread = "exited"]
    /\ UNCHANGED whd

\* where cy_worker_thread_delete goes on after the terminating item, with
\* the state st: to the join unless the join is complete, else to the
\* deinitialisation of the queue unless the worker is invalid
DeleteAfterItem(st) ==
    IF st # "CY_WORKER_THREAD_JOIN_COMPLETE" THEN "join"
    ELSE "deinit"

\* cy_worker_thread_delete, its first critical section: nothing to do for
\* an invalid worker; for a valid one the state becomes terminating and the
\* call goes on to queue the terminating item; in any other state it goes on
\* to the join or the deinitialisation
cy_worker_thread_delete ==
    /\ worker_info.del.pc \in {"idle", "done"}
    /\ worker_info.del.calls < MaxDeleteCalls
    /\ LET st == worker_info.state
           call == [NoCall EXCEPT !.calls = worker_info.del.calls + 1, !.found = st]
       IN  worker_info' =
             IF st = "CY_WORKER_THREAD_INVALID"
             THEN [worker_info EXCEPT !.del = [call EXCEPT !.pc = "done",
                                                           !.ret = "CY_RSLT_SUCCESS"]]
             ELSE IF st = "CY_WORKER_THREAD_VALID"
             THEN [worker_info EXCEPT !.state = "CY_WORKER_THREAD_TERMINATING",
                                      !.del = [call EXCEPT !.pc = "put"]]
             ELSE [worker_info EXCEPT !.del = [call EXCEPT !.pc = DeleteAfterItem(st)]]
    /\ UNCHANGED whd

\* cy_worker_thread_delete queues the terminating item; if the queue is full
\* the state goes back to valid and the call returns the error
delete_put ==
    /\ worker_info.del.pc = "put"
    /\ worker_info' =
         IF QueueFull(worker_info)
         THEN [worker_info EXCEPT !.state = "CY_WORKER_THREAD_VALID",
                                  !.del.pc = "done", !.del.result = "error of cy_rtos_queue_put",
                                  !.del.ret = "error of cy_rtos_queue_put"]
         ELSE [QueuePut(worker_info, NullItem) EXCEPT
                   !.del.pc = DeleteAfterItem(worker_info.state),
                   !.del.result = "CY_RSLT_SUCCESS"]
    /\ UNCHANGED whd

\* cy_worker_thread_delete joins the worker thread: cy_rtos_thread_join
\* blocks until the thread has exited, or fails
delete_join ==
    /\ worker_info.del.pc = "join"
    /\ worker_info.thread = "exited"
    /\ \E join_ok \in BOOLEAN :
          worker_info' =
            IF join_ok
            THEN [worker_info EXCEPT !.state = "CY_WORKER_THREAD_JOIN_COMPLETE",
                                     !.thread = "joined", !.del.pc = "deinit"]
            ELSE [worker_info EXCEPT !.del.pc = "done",
                                     !.del.ret = "error of cy_rtos_thread_join"]
    /\ UNCHANGED whd

\* cy_worker_thread_delete deinitialises the queue and marks the worker
\* invalid, or returns the error of the deinitialisation
delete_deinit ==
    /\ worker_info.del.pc = "deinit"
    /\ \E deinit_ok \in BOOLEAN :
          worker_info' =
            IF deinit_ok
            THEN [worker_info EXCEPT !.state = "CY_WORKER_THREAD_INVALID",
                                     !.event_queue = <<>>,
                                     !.del.pc = "done", !.del.ret = "CY_RSLT_SUCCESS"]
            ELSE [worker_info EXCEPT !.del.pc = "done",
                                     !.del.ret = "error of cy_rtos_queue_deinit"]
    /\ UNCHANGED whd

\* cy_worker_thread_enqueue, its first critical section: refused unless the
\* worker is valid or enqueuing; else one more enqueue in progress
cy_worker_thread_enqueue(e) ==
    /\ worker_info.enq[e].pc \in {"idle", "done"}
    /\ worker_info.enq[e].calls < MaxEnqueueCalls
    /\ LET st == worker_info.state
           call == [NoCall EXCEPT !.calls = worker_info.enq[e].calls + 1, !.found = st]
       IN  worker_info' =
             IF st \notin {"CY_WORKER_THREAD_VALID", "CY_WORKER_THREAD_ENQUEUING"}
             THEN [worker_info EXCEPT
                       !.enq[e] = [call EXCEPT !.pc = "done",
                                               !.ret = "CY_WORKER_THREAD_ERR_THREAD_INVALID"]]
             ELSE [worker_info EXCEPT !.enqueue_count = @ + 1,
                                      !.state = "CY_WORKER_THREAD_ENQUEUING",
                                      !.enq[e] = [call EXCEPT !.pc = "put"]]
    /\ UNCHANGED whd

\* cy_worker_thread_enqueue queues its work item, without waiting if the
\* queue is full
enqueue_put(e) ==
    /\ worker_info.enq[e].pc = "put"
    /\ worker_info' =
         IF QueueFull(worker_info)
         THEN [worker_info EXCEPT !.enq[e].pc = "end",
                                  !.enq[e].result = "error of cy_rtos_queue_put"]
         ELSE [QueuePut(worker_info, WorkItem(e, worker_info.enq[e].calls)) EXCEPT
                   !.enq[e].pc = "end", !.enq[e].result = "CY_RSLT_SUCCESS"]
    /\ UNCHANGED whd

\* cy_worker_thread_enqueue, its second critical section: one enqueue fewer
\* in progress, and the worker valid again when none is left
enqueue_end(e) ==
    /\ worker_info.enq[e].pc = "end"
    /\ worker_info' = [worker_info EXCEPT
                          !.enqueue_count = @ - 1,
                          !.state = IF worker_info.enqueue_count - 1 = 0
                                    THEN "CY_WORKER_THREAD_VALID" ELSE @,
                          !.enq[e].pc = "done", !.enq[e].ret = worker_info.enq[e].result]
    /\ UNCHANGED whd

\* a worker created by cy_worker_thread_create: valid, its queue empty, its
\* thread running
InitWorker ==
    /\ clock = 0
    /\ dhcp = NoDhcp
    /\ worker_info = [NoWorkerInfo EXCEPT !.state = "CY_WORKER_THREAD_VALID",
                                          !.thread = "running"]
    /\ synch = NoSynch
    /\ wlan = NoWlan
    /\ bus = IdleBus
    /\ scan_log = <<>>
    /\ scan = NoScan
    /\ auth_entry = NoAuth
    /\ chip_id \in ChipIds
    /\ role = "WHD_INVALID_ROLE"
    /\ whd_join_status = 0
    /\ keep_wlan_awake = 0
    /\ active_join_mutex = NoMutex
    /\ active_join_semaphore = NULL
    /\ join_sema = [t \in Threads |-> DeadSema]
    /\ join_entry = [registered |-> FALSE, user_data |-> NULL]
    /\ pc = [t \in Threads |-> "idle"]
    /\ loc = [t \in Threads |-> NoLoc]
    /\ hist = [t \in Threads |-> NoHist]
    /\ ret = [t \in Threads |-> "-"]
    /\ worker = IdleWorker
    /\ script = FreeScript(0)
    /\ ncalls = 0
    /\ nevents = 0

NextWorker ==
    \/ cy_worker_thread_func
    \/ cy_worker_thread_delete
    \/ delete_put
    \/ delete_join
    \/ delete_deinit
    \/ \E e \in Enqueuers : cy_worker_thread_enqueue(e)
    \/ \E e \in Enqueuers : enqueue_put(e)
    \/ \E e \in Enqueuers : enqueue_end(e)

SpecWorker == InitWorker /\ [][NextWorker]_vars

\* ------------------------------------------------------------------------
\* The DHCP server: cy_dhcp_thread_func, get_client_ip_address_from_cache,
\* add_client_to_cache (whd_lwip_dhcp_server.c)
\* ------------------------------------------------------------------------
\* every variable but dhcp
nondhcp == <<chip_id, role, whd_join_status, keep_wlan_awake, active_join_mutex,
             active_join_semaphore, join_sema, join_entry, pc, loc, ret, worker, hist,
             script, ncalls, nevents, clock, auth_entry, scan, scan_log, bus, wlan, synch,
             worker_info>>

CacheSlots == 0..(DHCP_IP_ADDRESS_CACHE_MAX - 1)
\* the client MAC addresses of the requests: the zero address and MaxClients
\* others
ClientMacs == 0..MaxClients

\* "subnet | ( ( addr + 1 ) & ip_mask )", for a subnet with no host bit set
\* and an ip_mask of the low bits
AddressAfter(d, addr) == d.subnet + ((addr + 1) % (d.ip_mask + 1))

\* the do-while that increments next_available_ip_addr past the address of
\* the server itself
NextAvailable(d) ==
    LET n == AddressAfter(d, d.next_available_ip_addr)
    IN  IF n = d.local_ip_address THEN AddressAfter(d, n) ELSE n

\* the slots of the cache that hold the MAC address mac
SlotsOf(d, mac) == {a \in CacheSlots : d.cached_mac_addresses[a] = mac}
\* the lowest slot of a nonempty set of slots
FirstSlot(S) == CHOOSE a \in S : \A b \in S : a <= b

\* get_client_ip_address_from_cache: whether mac is in the cache
InCache(d, mac) == SlotsOf(d, mac) # {}
\* get_client_ip_address_from_cache: the address of the first slot with mac
CachedAddress(d, mac) == d.cached_ip_addresses[FirstSlot(SlotsOf(d, mac))]

\* the slot that add_client_to_cache writes: the slot of the client if it
\* is cached, else the first empty slot, else slot 0
SlotToWrite(d, mac) ==
    IF SlotsOf(d, mac) # {} THEN FirstSlot(SlotsOf(d, mac))
    ELSE IF SlotsOf(d, empty_cache) # {} THEN FirstSlot(SlotsOf(d, empty_cache))
    ELSE 0

\* add_client_to_cache
add_client_to_cache(d, mac, ip) ==
    LET a == SlotToWrite(d, mac)
    IN  [d EXCEPT !.cached_mac_addresses[a] = mac, !.cached_ip_addresses[a] = ip]

\* the address the server gives the client: the cached one, else the next
\* available one
GivenAddress(d, mac) ==
    IF InCache(d, mac) THEN CachedAddress(d, mac) ELSE d.next_available_ip_addr

\* the DHCP thread handles a DHCPDISCOVER of the client mac: it offers the
\* address given, unless it cannot create the reply packet
dhcp_discover(mac, packet_ok) ==
    /\ dhcp' = IF ~packet_ok
               THEN [dhcp EXCEPT !.reply = [type |-> "none", mac |-> mac, your_ip_addr |-> 0]]
               ELSE [dhcp EXCEPT !.reply = [type |-> "DHCPOFFER", mac |-> mac,
                                            your_ip_addr |-> GivenAddress(dhcp, mac)]]
    /\ UNCHANGED nondhcp

\* the DHCP thread handles a DHCPREQUEST of the client mac for the address
\* requested (0 without the option): ignored if it names another server;
\* NAK unless the address requested is the address given; else ACK, the
\* next available address incremented if it was used, and the client cached
dhcp_request(mac, requested, for_server, packet_ok) ==
    /\ dhcp' =
         IF ~for_server \/ ~packet_ok
         THEN [dhcp EXCEPT !.reply = [type |-> "none", mac |-> mac, your_ip_addr |-> 0]]
         ELSE LET given == GivenAddress(dhcp, mac)
                  next_avail_ip_address_used == ~InCache(dhcp, mac)
                  d == IF next_avail_ip_address_used
                       THEN [dhcp EXCEPT !.next_available_ip_addr = NextAvailable(dhcp)]
                       ELSE dhcp
              IN  IF requested # given
                  THEN [dhcp EXCEPT !.reply = [type |-> "DHCPNAK", mac |-> mac,
                                               your_ip_addr |-> 0]]
                  ELSE [add_client_to_cache(d, mac, given) EXCEPT
                            !.reply = [type |-> "DHCPACK", mac |-> mac,
                                       your_ip_addr |-> given]]
    /\ UNCHANGED nondhcp

\* the addresses a client can ask for: none, or one of the subnet
RequestedAddresses(d) == {0} \cup {d.subnet + h : h \in 0..d.ip_mask}

\* the DHCP thread started on an interface: the cache empty, the first
\* address served the one after the server's own
InitDhcp ==
    /\ clock = 0
    /\ \E m \in DhcpHostMasks :
          LET d == [NoDhcp EXCEPT !.ip_mask = m, !.subnet = DhcpSubnet,
                                  !.local_ip_address = DhcpSubnet + DhcpLocalHost]
          IN  dhcp = [d EXCEPT !.next_available_ip_addr =
                                   AddressAfter(d, d.local_ip_address)]
    /\ worker_info = NoWorkerInfo
    /\ synch = NoSynch
    /\ wlan = NoWlan
    /\ bus = IdleBus
    /\ scan_log = <<>>
    /\ scan = NoScan
    /\ auth_entry = NoAuth
    /\ chip_id \in ChipIds
    /\ role = "WHD_INVALID_ROLE"
    /\ whd_join_status = 0
    /\ keep_wlan_awake = 0
    /\ active_join_mutex = NoMutex
    /\ active_join_semaphore = NULL
    /\ join_sema = [t \in Threads |-> DeadSema]
    /\ join_entry = [registered |-> FALSE, user_data |-> NULL]
    /\ pc = [t \in Threads |-> "idle"]
    /\ loc = [t \in Threads |-> NoLoc]
    /\ hist = [t \in Threads |-> NoHist]
    /\ ret = [t \in Threads |-> "-"]
    /\ worker = IdleWorker
    /\ script = FreeScript(0)
    /\ ncalls = 0
    /\ nevents = 0

NextDhcp ==
    \/ \E mac \in ClientMacs, packet_ok \in BOOLEAN : dhcp_discover(mac, packet_ok)
    \/ \E mac \in ClientMacs, requested \in RequestedAddresses(dhcp),
          for_server, packet_ok \in BOOLEAN :
            dhcp_request(mac, requested, for_server, packet_ok)

SpecDhcp == InitDhcp /\ [][NextDhcp]_vars

\* the call of whd_wifi_scan_synch has returned WHD_SUCCESS and no later call
\* of the thread has begun
SynchSucceeded ==
    /\ pc["t1"] = "done" /\ hist["t1"].op = "scan_synch" /\ ret["t1"] = "WHD_SUCCESS"

\* C37: for whd_wifi_scan_synch called with a count N > 0, however many scan
\* results are reported, at most N records are written to the caller's
\* array, none at an index >= N, and the count that a successful call
\* returned is the number of records written
C37_AtMostCountRecords ==
    synch.N > 0 =>
        /\ Len(synch.written) <= synch.N
        /\ \A i \in 1..Len(synch.written) : synch.written[i] < synch.N
        /\ SynchSucceeded => synch.out = Len(synch.written)

\* the terminating item has been put in the queue of the worker
NullQueued == \E i \in 1..Len(worker_info.queued) : worker_info.queued[i] = NullItem

\* the work items put in the queue before the first terminating item
RECURSIVE BeforeNull(_)
BeforeNull(q) ==
    IF q = <<>> \/ Head(q) = NullItem THEN <<>> ELSE <<Head(q)>> \o BeforeNull(Tail(q))

\* cy_worker_thread_delete was called on a worker that was running and has
\* come past the step that queues the terminating item
DeletePastItem ==
    /\ worker_info.del.found \in {"CY_WORKER_THREAD_VALID", "CY_WORKER_THREAD_ENQUEUING"}
    /\ worker_info.del.pc \in {"join", "deinit", "done"}

\* C39: once cy_worker_thread_delete, called on a running worker, has come
\* past the step that queues the terminating item, the NULL item has been
\* queued, whatever calls of cy_worker_thread_enqueue run at the same time;
\* and a worker thread that has terminated has run every work item queued
\* before the NULL item
C39_DeleteQueuesTerminatingItem ==
    /\ DeletePastItem => NullQueued
    /\ worker_info.thread # "running" => worker_info.done = BeforeNull(worker_info.queued)

\* C40: the client cache of the DHCP server never holds the same IP address
\* for two different client MAC addresses
C40_NoAddressForTwoClients ==
    \A a, b \in CacheSlots :
        (/\ a # b
         /\ dhcp.cached_mac_addresses[a] # empty_cache
         /\ dhcp.cached_mac_addresses[b] # empty_cache
         /\ dhcp.cached_mac_addresses[a] # dhcp.cached_mac_addresses[b])
            => dhcp.cached_ip_addresses[a] # dhcp.cached_ip_addresses[b]

====
